---- MODULE Spec2Model ----
(***************************************************************************)
(* Agent Bridge (src/main.py): the store and the HTTP handlers that read   *)
(* and write it.  One variable per table, one action per handler.  The     *)
(* atomic specifications run every handler as one step (requests served    *)
(* one after another); the *Conc specifications split a handler at the     *)
(* point where its SELECT (autocommit) ends and its write transaction      *)
(* (implicit BEGIN before the first INSERT/UPDATE, up to commit) starts.   *)
(* Ids (uuid4, token_urlsafe) are the next unused number of their table;   *)
(* None / SQL NULL is NULL for text, NULL_TIME for a timestamp, NO_ID for   *)
(* an id; the arrows and emoji of the source's strings are spelled in      *)
(* ASCII.  PRAGMA foreign_keys is never set: no FOREIGN KEY is enforced.   *)
(***************************************************************************)
EXTENDS Integers, Sequences, FiniteSets, Bags, TLC

\* ---------------------------------------------------------------- bounds
MaxClock == 2
MaxKeys == 3
MaxRegs == 2
MaxTasks == 3
MaxHistory == 4
MaxComments == 1
MaxConvs == 2
MaxMsgs == 2
MaxFiles == 1
MaxReq == 2
MaxLimit == 2
MaxRepos == 2
MaxCommits == 3

\* ------------------------------------------------------------- constants
Names == {"alice", "bob", "carol"}
NULL == "NULL"
NULL_TIME == 0
NO_ID == 0
ADMIN_SECRET == "secret"
MAX_FILE_SIZE == 52428800

Keys == 1..MaxKeys
RegIds == 1..MaxRegs
TaskIds == 1..MaxTasks
ConvIds == 1..MaxConvs
MsgIds == 1..MaxMsgs
Slots == 1..MaxReq

VARIABLES
    clock,                  \* the value time.time() returns
    api_keys,               \* table api_keys: set of rows
    pending_registrations,  \* table pending_registrations: id -> row
    tasks,                  \* table tasks: id -> row
    task_dependencies,      \* table task_dependencies: set of <<task_id, depends_on>>
    task_comments,          \* table task_comments: bag of rows (the uuid key left out)
    task_history,           \* table task_history: bag of rows (the uuid key left out)
    conversations,          \* table conversations: id -> row
    conversation_members,   \* table conversation_members: set of rows
    messages,               \* table messages: id -> row
    files,                  \* table files: id -> row
    disk,                   \* FILES_DIR: set of stored file ids
    file_seq,               \* number of file ids handed out so far
    git_repos,              \* table git_repos: id -> row
    git_branches,           \* table git_branches: <<repo_id, name>> -> head_commit
    git_commits,            \* table git_commits: id -> row
    git_files,              \* table git_files: the rows in rowid order (the uuid key left out)
    reqs,                   \* requests in flight (the *Conc specifications)
    pending_messages,       \* inbox watcher: messages detected but not yet replied to
    notified_ids,           \* inbox watcher: ids of the messages already announced
    last_reply_time,        \* inbox watcher: when an agent was last spawned
    watcher_time            \* inbox watcher: the value time.time() returns in its process

\* inbox watcher: seconds between two looks at the inbox, and between two replies
DETECT_INTERVAL == 60
REPLY_INTERVAL == 1800

vars == <<clock, api_keys, pending_registrations, tasks, task_dependencies,
          task_comments, task_history, conversations, conversation_members,
          messages, files, disk, file_seq, git_repos, git_branches, git_commits,
          git_files, reqs, pending_messages, notified_ids, last_reply_time,
          watcher_time>>

identityVars == <<api_keys, pending_registrations>>
taskVars == <<tasks, task_dependencies, task_comments, task_history>>
msgVars == <<conversations, conversation_members, messages>>
fileVars == <<files, disk, file_seq>>
gitVars == <<git_repos, git_branches, git_commits, git_files>>
watcherVars == <<pending_messages, notified_ids, last_reply_time, watcher_time>>

\* A request slot: the handler it runs, where it stands, what it read, its answer.
\* Columns that no modelled handler reads (created_at, description, ...) are left
\* out of the rows; every other column keeps its name.
IdleReq == [op |-> "none", pc |-> "idle", agent |-> NULL, id |-> NO_ID,
            to |-> NULL, snap |-> NO_ID, code |-> 0,
            found |-> FALSE, now |-> NULL_TIME, files |-> << >>,
            body |-> [status |-> NULL, priority |-> NULL]]

\* ------------------------------------------------------------------ auth
\* SELECT agent_id FROM api_keys WHERE key = ?   (NULL: HTTP 401)
get_agent_id(k) ==
    IF \E r \in api_keys : r.key = k
    THEN (CHOOSE r \in api_keys : r.key = k).agent_id
    ELSE NULL

Agents == {r.agent_id : r \in api_keys}

Init ==
    /\ clock = 1
    /\ api_keys = {}
    /\ pending_registrations = << >>
    /\ tasks = << >>
    /\ task_dependencies = {}
    /\ task_comments = EmptyBag
    /\ task_history = EmptyBag
    /\ conversations = << >>
    /\ conversation_members = {}
    /\ messages = << >>
    /\ files = << >>
    /\ disk = {}
    /\ file_seq = 0
    /\ git_repos = << >>
    /\ git_branches = << >>
    /\ git_commits = << >>
    /\ git_files = << >>
    /\ reqs = [s \in Slots |-> IdleReq]
    /\ pending_messages = << >>
    /\ notified_ids = {}
    /\ last_reply_time = 0
    /\ watcher_time = REPLY_INTERVAL

\* time.time() moves on between two calls
Tick ==
    /\ clock < MaxClock
    /\ clock' = clock + 1
    /\ UNCHANGED <<identityVars, taskVars, msgVars, fileVars, gitVars, watcherVars, reqs>>

\* ============================================================== Identity

\* INSERT INTO api_keys VALUES (key, agent_id, time.time()); key is a fresh
\* secrets.token_urlsafe(32).  key is the PRIMARY KEY, agent_id is only NOT NULL.
InsertApiKey(keys, name) ==
    keys \cup {[key |-> Cardinality(keys) + 1, agent_id |-> name]}

\* POST /register: the status code
register_agent_code(name, secret) ==
    IF secret # ADMIN_SECRET THEN 403
    ELSE IF name \in Agents THEN 409
    ELSE 200

\* POST /register
register_agent(name, secret) ==
    /\ UNCHANGED <<clock, gitVars, watcherVars, pending_registrations, taskVars, msgVars, fileVars, reqs>>
    /\ IF register_agent_code(name, secret) # 200
       THEN UNCHANGED api_keys
       ELSE /\ Cardinality(api_keys) < MaxKeys
            /\ api_keys' = InsertApiKey(api_keys, name)

\* POST /join: the status code (500: the UNIQUE constraint on agent_name raises
\* sqlite3.IntegrityError, which the handler does not catch)
request_to_join_code(name) ==
    IF name \in Agents THEN 409
    ELSE IF \E r \in DOMAIN pending_registrations :
               /\ pending_registrations[r].agent_name = name
               /\ pending_registrations[r].status = "pending" THEN 409
    ELSE IF \E r \in DOMAIN pending_registrations :
               pending_registrations[r].agent_name = name THEN 500
    ELSE 200

\* POST /join
request_to_join(name) ==
    /\ UNCHANGED <<clock, gitVars, watcherVars, api_keys, taskVars, msgVars, fileVars, reqs>>
    /\ IF request_to_join_code(name) # 200
       THEN UNCHANGED pending_registrations
       ELSE /\ Len(pending_registrations) < MaxRegs
            /\ pending_registrations' = Append(pending_registrations,
                   [agent_name |-> name, status |-> "pending",
                    reviewed_at |-> NULL_TIME, reviewed_by |-> NULL])

\* SELECT * FROM pending_registrations WHERE id = ? AND status = 'pending'
SelectPending(regs, r) ==
    r \in DOMAIN regs /\ regs[r].status = "pending"

\* mutant: the approval writes no agent row
ApproveInsertKeyNone(keys, name) == keys

\* approve_registration's INSERT INTO api_keys: no look at the rows already there
ApproveInsertKey(keys, name) == InsertApiKey(keys, name)

\* UPDATE pending_registrations SET status = ?, reviewed_at = ?, reviewed_by = ? WHERE id = ?
ReviewUpdate(regs, r, status, now, by) ==
    [regs EXCEPT ![r].status = status, ![r].reviewed_at = now, ![r].reviewed_by = by]

\* POST /join/{registration_id}/approve and /reject: the status code
review_code(k, r) ==
    IF get_agent_id(k) = NULL THEN 401
    ELSE IF ~SelectPending(pending_registrations, r) THEN 404
    ELSE 200

\* POST /join/{registration_id}/approve
approve_registration(k, r) ==
    /\ UNCHANGED <<clock, gitVars, watcherVars, taskVars, msgVars, fileVars, reqs>>
    /\ IF review_code(k, r) # 200
       THEN UNCHANGED identityVars
       ELSE /\ Cardinality(api_keys) < MaxKeys
            /\ api_keys' = ApproveInsertKey(api_keys, pending_registrations[r].agent_name)
            /\ pending_registrations' =
                   ReviewUpdate(pending_registrations, r, "approved", clock, get_agent_id(k))

\* POST /join/{registration_id}/reject
reject_registration(k, r) ==
    /\ UNCHANGED <<clock, gitVars, watcherVars, api_keys, taskVars, msgVars, fileVars, reqs>>
    /\ IF review_code(k, r) # 200
       THEN UNCHANGED pending_registrations
       ELSE pending_registrations' =
                ReviewUpdate(pending_registrations, r, "rejected", clock, get_agent_id(k))

\* ---- GET /join/{registration_id}   (no API key needed)
check_join_status_code(r) ==
    IF r \notin DOMAIN pending_registrations THEN 404 ELSE 200

\* mutant: the key is looked up whatever the status
JoinShowsKeyAlways(status) == TRUE

\* if result["status"] == "approved"
JoinShowsKey(status) == status = "approved"

\* SELECT key FROM api_keys WHERE agent_id = ?: the rows fetchone() may take
KeyRows(name) == {row \in api_keys : row.agent_id = name}

\* the api_key field of the answers GET /join/{id} may give (NO_ID: no such field)
check_join_status(r) ==
    IF JoinShowsKey(pending_registrations[r].status)
       /\ KeyRows(pending_registrations[r].agent_name) # {}
    THEN {row.key : row \in KeyRows(pending_registrations[r].agent_name)}
    ELSE {NO_ID}

NextIdentity ==
    \/ Tick
    \/ \E n \in Names, s \in {ADMIN_SECRET, "wrong"} : register_agent(n, s)
    \/ \E n \in Names : request_to_join(n)
    \/ \E k \in Keys, r \in RegIds : approve_registration(k, r)
    \/ \E k \in Keys, r \in RegIds : reject_registration(k, r)

SpecIdentity == Init /\ [][NextIdentity]_vars

\* the join queue with the clock standing: who is registered, what was reviewed
NextReview ==
    \/ \E n \in Names : register_agent(n, ADMIN_SECRET)
    \/ \E n \in Names : request_to_join(n)
    \/ \E k \in Keys, r \in RegIds : approve_registration(k, r)
    \/ \E k \in Keys, r \in RegIds : reject_registration(k, r)

SpecReview == Init /\ [][NextReview]_vars

\* ---- approve_registration as two steps: the SELECT, then the write transaction
SlotFree(s) == reqs[s].pc = "idle" /\ \A q \in Slots : q < s => reqs[q].pc # "idle"

approve_begin(s, k, r) ==
    /\ SlotFree(s)
    /\ UNCHANGED <<clock, gitVars, watcherVars, identityVars, taskVars, msgVars, fileVars>>
    /\ reqs' = [reqs EXCEPT ![s] =
           IF review_code(k, r) # 200
           THEN [IdleReq EXCEPT !.op = "approve_registration", !.pc = "done",
                                !.agent = get_agent_id(k), !.id = r, !.code = review_code(k, r)]
           ELSE [IdleReq EXCEPT !.op = "approve_registration", !.pc = "txn",
                                !.agent = get_agent_id(k), !.id = r,
                                !.to = pending_registrations[r].agent_name]]

approve_commit(s) ==
    /\ reqs[s].op = "approve_registration" /\ reqs[s].pc = "txn"
    /\ Cardinality(api_keys) < MaxKeys
    /\ UNCHANGED <<clock, gitVars, watcherVars, taskVars, msgVars, fileVars>>
    /\ api_keys' = ApproveInsertKey(api_keys, reqs[s].to)
    /\ pending_registrations' =
           ReviewUpdate(pending_registrations, reqs[s].id, "approved", clock, reqs[s].agent)
    /\ reqs' = [reqs EXCEPT ![s].pc = "done", ![s].code = 200]

\* ---- reject_registration as two steps
reject_begin(s, k, r) ==
    /\ SlotFree(s)
    /\ UNCHANGED <<clock, gitVars, watcherVars, identityVars, taskVars, msgVars, fileVars>>
    /\ reqs' = [reqs EXCEPT ![s] =
           IF review_code(k, r) # 200
           THEN [IdleReq EXCEPT !.op = "reject_registration", !.pc = "done",
                                !.agent = get_agent_id(k), !.id = r, !.code = review_code(k, r)]
           ELSE [IdleReq EXCEPT !.op = "reject_registration", !.pc = "txn",
                                !.agent = get_agent_id(k), !.id = r,
                                !.to = pending_registrations[r].agent_name]]

\* the UPDATE names the row by id alone
reject_commit(s) ==
    /\ reqs[s].op = "reject_registration" /\ reqs[s].pc = "txn"
    /\ UNCHANGED <<clock, gitVars, watcherVars, api_keys, taskVars, msgVars, fileVars>>
    /\ pending_registrations' =
           ReviewUpdate(pending_registrations, reqs[s].id, "rejected", clock, reqs[s].agent)
    /\ reqs' = [reqs EXCEPT ![s].pc = "done", ![s].code = 200]

\* reviews of one join queue that overlap
NextReviewConc ==
    \/ register_agent("alice", ADMIN_SECRET)
    \/ \E n \in Names : request_to_join(n)
    \/ \E s \in Slots, k \in Keys, r \in RegIds : approve_begin(s, k, r)
    \/ \E s \in Slots : approve_commit(s)
    \/ \E s \in Slots, k \in Keys, r \in RegIds : reject_begin(s, k, r)
    \/ \E s \in Slots : reject_commit(s)

SpecReviewConc == Init /\ [][NextReviewConc]_vars

NextIdentityConc ==
    \/ \E n \in Names : register_agent(n, ADMIN_SECRET)
    \/ \E n \in Names : request_to_join(n)
    \/ \E s \in Slots, k \in Keys, r \in RegIds : approve_begin(s, k, r)
    \/ \E s \in Slots : approve_commit(s)

SpecIdentityConc == Init /\ [][NextIdentityConc]_vars

\* ---------------------------------------------------- claims on identity

\* C3: no two api_keys rows carry the same agent name.
C3_AgentNamesUnique ==
    \A r1, r2 \in api_keys : r1.agent_id = r2.agent_id => r1 = r2

\* C4: of two concurrent approve requests for the same registration exactly one
\* creates the agent row and the other is refused (each 200 answer wrote one row,
\* so two 200 answers are two agent rows for the name).
C4_OneApprovalWins ==
    \A s1, s2 \in Slots :
        ( /\ s1 # s2
          /\ reqs[s1].op = "approve_registration" /\ reqs[s1].pc = "done"
          /\ reqs[s2].op = "approve_registration" /\ reqs[s2].pc = "done"
          /\ reqs[s1].id = reqs[s2].id )
        => ~(reqs[s1].code = 200 /\ reqs[s2].code = 200)

\* C15: after the join request for a name was rejected, a new join request for that
\* name succeeds and creates a new pending registration.
C15_RejoinAfterReject ==
    /\ \A n \in Names :
          ( /\ n \notin Agents
            /\ \E r \in DOMAIN pending_registrations :
                  /\ pending_registrations[r].agent_name = n
                  /\ pending_registrations[r].status = "rejected"
            /\ \A r \in DOMAIN pending_registrations :
                  pending_registrations[r].agent_name = n
                      => pending_registrations[r].status # "pending"
            /\ Len(pending_registrations) < MaxRegs )
          => /\ request_to_join_code(n) = 200
             /\ ENABLED request_to_join(n)

\* C16: approving a registration that is already approved changes no state, and the
\* answer is success or a conflict (409).
C16_SecondApprovalNoOp ==
    /\ [](\A k \in Keys, r \in DOMAIN pending_registrations :
              (get_agent_id(k) # NULL /\ pending_registrations[r].status = "approved")
                  => review_code(k, r) \in {200, 409})
    /\ [][\A k \in Keys, r \in DOMAIN pending_registrations :
              (pending_registrations[r].status = "approved" /\ approve_registration(k, r))
                  => UNCHANGED identityVars]_vars

\* C17: a registration is approved iff its approval wrote an agent row for its name
\* in the same transaction; a refused approval changes neither table.
C17_ApprovalWritesAgent ==
    /\ [](\A r \in DOMAIN pending_registrations :
              pending_registrations[r].status = "approved"
                  => KeyRows(pending_registrations[r].agent_name) # {})
    /\ [][\A r \in DOMAIN pending_registrations :
              (pending_registrations[r].status # "approved"
               /\ pending_registrations'[r].status = "approved")
                  => \E row \in api_keys' \ api_keys :
                         row.agent_id = pending_registrations[r].agent_name]_vars
    /\ [][\A k \in Keys, r \in RegIds :
              (get_agent_id(k) # NULL /\ approve_registration(k, r)) =>
                  IF review_code(k, r) = 200
                  THEN /\ pending_registrations'[r].status = "approved"
                       /\ Cardinality(api_keys') = Cardinality(api_keys) + 1
                  ELSE UNCHANGED identityVars]_vars

\* an approved registration next to its agent row, with the approver on record
C17_Witness ==
    \E r \in DOMAIN pending_registrations :
        /\ pending_registrations[r].status = "approved"
        /\ pending_registrations[r].reviewed_by \in Agents
        /\ KeyRows(pending_registrations[r].agent_name) # {}

IsMemberIn(members, c, agent) == <<c, agent>> \in members
IsMember(c, agent) == IsMemberIn(conversation_members, c, agent)

MembersIn(members, c) == {m[2] : m \in {x \in members : x[1] = c}}
MembersOf(c) == MembersIn(conversation_members, c)

\* sorted([agent_a, agent_b]): Python orders the names as strings
NameRank(n) == IF n = "alice" THEN 1 ELSE IF n = "bob" THEN 2 ELSE 3
Sorted2(x, y) == IF NameRank(x) <= NameRank(y) THEN <<x, y>> ELSE <<y, x>>

\* find_or_create_dm's SELECT: the dm conversations that hold a row for a and a row
\* for b (m1 and m2 may be the same row when a = b); fetchone() takes any of them
DmMatches(agent_a, agent_b) ==
    LET ab == Sorted2(agent_a, agent_b) IN
    {c \in DOMAIN conversations :
        /\ conversations[c].type = "dm"
        /\ IsMember(c, ab[1])
        /\ IsMember(c, ab[2])}

\* what the SELECT may hand back: a matching id, or NO_ID when there is none
DmSelect(agent_a, agent_b) ==
    IF DmMatches(agent_a, agent_b) = {} THEN {NO_ID} ELSE DmMatches(agent_a, agent_b)

\* str(uuid.uuid4()) for a new conversation / message
NewConvId(convs) == Len(convs) + 1
NewMsgId(msgs) == Len(msgs) + 1

\* find_or_create_dm after the SELECT returned found: the conversation id it returns
DmId(convs, found) == IF found # NO_ID THEN found ELSE NewConvId(convs)

\* ... its INSERT INTO conversations (type 'dm', name "a <-> b" of the sorted pair)
DmConvs(convs, found, agent_a, agent_b) ==
    IF found # NO_ID THEN convs
    ELSE Append(convs, [type |-> "dm",
                        name |-> Sorted2(agent_a, agent_b)[1] \o " <-> " \o Sorted2(agent_a, agent_b)[2],
                        created_by |-> agent_a])

\* ... its INSERT OR IGNORE INTO conversation_members for agent in (a, b)
DmMembers(members, convs, found, agent_a, agent_b) ==
    IF found # NO_ID THEN members
    ELSE members \cup {<<NewConvId(convs), agent_a>>, <<NewConvId(convs), agent_b>>}

\* a new dm needs room in the model
DmRoom(found) == found # NO_ID \/ Len(conversations) < MaxConvs

\* INSERT INTO messages (id, conversation_id, from_agent, to_agent, content, timestamp); read defaults to 0
InsertMessage(msgs, conv_id, from_agent, to_agent, now) ==
    Append(msgs, [conversation_id |-> conv_id, from_agent |-> from_agent,
                  to_agent |-> to_agent, timestamp |-> now, read |-> 0])

\* ---- POST /send   (msg.to is any string: it is not looked up in api_keys)
send_dm_code(k, to) ==
    IF get_agent_id(k) = NULL THEN 401 ELSE 200

\* the write transaction of send_dm once the SELECT returned found
send_dm_txn(agent, to, found) ==
    /\ DmRoom(found)
    /\ Len(messages) < MaxMsgs
    /\ conversations' = DmConvs(conversations, found, agent, to)
    /\ conversation_members' = DmMembers(conversation_members, conversations, found, agent, to)
    /\ messages' = InsertMessage(messages, DmId(conversations, found), agent, to, clock)

send_dm(k, to) ==
    /\ UNCHANGED <<clock, gitVars, watcherVars, identityVars, taskVars, fileVars, reqs>>
    /\ IF send_dm_code(k, to) # 200
       THEN UNCHANGED msgVars
       ELSE \E found \in DmSelect(get_agent_id(k), to) : send_dm_txn(get_agent_id(k), to, found)

\* ---- POST /send-file
\* errno: 0 when open() and write() succeed, 28 ENOSPC, 13 EACCES
send_dm_with_file_code(k, to, size, errno) ==
    IF get_agent_id(k) = NULL THEN 401
    ELSE IF size > MAX_FILE_SIZE THEN 413
    ELSE IF size = 0 THEN 400
    ELSE IF errno = 28 THEN 507
    ELSE IF errno # 0 THEN 500
    ELSE 200

\* str(uuid.uuid4()) for a new file
NewFileId == file_seq + 1

\* INSERT INTO files (...) then UPDATE files SET message_id = ? WHERE id = ?
InsertFile(fs, id, agent, conv_id, message_id) ==
    fs @@ (id :> [uploaded_by |-> agent, conversation_id |-> conv_id,
                  message_id |-> message_id])

\* mutant: find_or_create_dm commits the dm it inserts, a failed write leaves it behind
send_dm_with_file_txn_dm_kept(agent, to, found, errno) ==
    IF errno # 0
    THEN /\ UNCHANGED <<messages, files>>
         /\ DmRoom(found)
         /\ file_seq < MaxFiles
         /\ file_seq' = file_seq + 1
         /\ disk' = IF errno = 28 THEN disk \cup {NewFileId} ELSE disk
         /\ conversations' = DmConvs(conversations, found, agent, to)
         /\ conversation_members' = DmMembers(conversation_members, conversations, found, agent, to)
    ELSE /\ DmRoom(found)
         /\ Len(messages) < MaxMsgs
         /\ file_seq < MaxFiles
         /\ file_seq' = file_seq + 1
         /\ disk' = disk \cup {NewFileId}
         /\ conversations' = DmConvs(conversations, found, agent, to)
         /\ conversation_members' = DmMembers(conversation_members, conversations, found, agent, to)
         /\ files' = InsertFile(files, NewFileId, agent, DmId(conversations, found),
                                NewMsgId(messages))
         /\ messages' = InsertMessage(messages, DmId(conversations, found), agent, to, clock)

\* the disk write and the write transaction of send_dm_with_file.  On OSError the
\* handler closes the connection without commit: the dm find_or_create_dm inserted
\* is rolled back; write() failing with ENOSPC leaves the file open() created.
send_dm_with_file_txn(agent, to, found, errno) ==
    IF errno # 0
    THEN /\ UNCHANGED <<msgVars, files>>
         /\ file_seq < MaxFiles
         /\ file_seq' = file_seq + 1
         /\ disk' = IF errno = 28 THEN disk \cup {NewFileId} ELSE disk
    ELSE /\ DmRoom(found)
         /\ Len(messages) < MaxMsgs
         /\ file_seq < MaxFiles
         /\ file_seq' = file_seq + 1
         /\ disk' = disk \cup {NewFileId}
         /\ conversations' = DmConvs(conversations, found, agent, to)
         /\ conversation_members' = DmMembers(conversation_members, conversations, found, agent, to)
         /\ files' = InsertFile(files, NewFileId, agent, DmId(conversations, found),
                                NewMsgId(messages))
         /\ messages' = InsertMessage(messages, DmId(conversations, found), agent, to, clock)

send_dm_with_file(k, to, size, errno) ==
    /\ UNCHANGED <<clock, gitVars, watcherVars, identityVars, taskVars, reqs>>
    /\ IF send_dm_with_file_code(k, to, size, errno) \in {401, 413, 400}
       THEN UNCHANGED <<msgVars, fileVars>>
       ELSE \E found \in DmSelect(get_agent_id(k), to) :
                send_dm_with_file_txn(get_agent_id(k), to, found, errno)

\* ---- POST /files/upload
\* conversation_id: NO_ID when the form leaves it out
upload_file_code(k, conversation_id, size, errno) ==
    IF get_agent_id(k) = NULL THEN 401
    ELSE IF size > MAX_FILE_SIZE THEN 413
    ELSE IF size = 0 THEN 400
    ELSE IF conversation_id # NO_ID /\ ~IsMember(conversation_id, get_agent_id(k)) THEN 403
    ELSE IF errno = 28 THEN 507
    ELSE IF errno # 0 THEN 500
    ELSE 200

\* with open(file_path, "wb") as f: f.write(content)   (EACCES: open() fails, no file;
\* ENOSPC: write() fails, the file open() created stays)
WriteBlob(d, id, errno) == IF errno \in {0, 28} THEN d \cup {id} ELSE d

\* os.remove(file_path)
RemoveBlob(d, id) == d \ {id}

\* mutant: the membership test comes after the blob was written
UploadRefusedEarly(code) == code \in {401, 413, 400}

\* the answers upload_file raises before it opens the file
UploadRefused(code) == code \in {401, 413, 400, 403}

upload_file(k, conversation_id, size, errno) ==
    /\ UNCHANGED <<clock, gitVars, watcherVars, identityVars, taskVars, msgVars, reqs>>
    /\ IF UploadRefused(upload_file_code(k, conversation_id, size, errno))
       THEN UNCHANGED fileVars
       ELSE /\ file_seq < MaxFiles
            /\ file_seq' = file_seq + 1
            /\ disk' = WriteBlob(disk, NewFileId, errno)
            /\ files' = IF errno # 0 THEN files
                        ELSE InsertFile(files, NewFileId, get_agent_id(k), conversation_id, NO_ID)

\* ---- GET /files/{file_id} and GET /files/{file_id}/{filename}: no key asked
get_file_info_code(f) == IF f \in DOMAIN files THEN 200 ELSE 404

download_file_code(f) ==
    IF f \notin DOMAIN files THEN 404
    ELSE IF f \notin disk THEN 404
    ELSE 200

\* ---- DELETE /files/{file_id}
\* mutant: any agent may delete
delete_file_code_any(k, f) ==
    IF get_agent_id(k) = NULL THEN 401
    ELSE IF f \notin DOMAIN files THEN 404
    ELSE 200

delete_file_code(k, f) ==
    IF get_agent_id(k) = NULL THEN 401
    ELSE IF f \notin DOMAIN files THEN 404
    ELSE IF files[f].uploaded_by # get_agent_id(k) THEN 403
    ELSE 200

\* DELETE FROM files WHERE id = ?
DeleteFileRow(fs, f) == [x \in DOMAIN fs \ {f} |-> fs[x]]

\* removed: os.remove() went through (an OSError is logged and the row deleted all the same)
delete_file(k, f, removed) ==
    /\ UNCHANGED <<clock, gitVars, watcherVars, identityVars, taskVars, msgVars, file_seq, reqs>>
    /\ IF delete_file_code(k, f) # 200
       THEN UNCHANGED <<files, disk>>
       ELSE /\ disk' = IF removed THEN RemoveBlob(disk, f) ELSE disk
            /\ files' = DeleteFileRow(files, f)

\* ---- POST /conversations
create_conversation_code(k) ==
    IF get_agent_id(k) = NULL THEN 401 ELSE 200

create_conversation(k, name, members) ==
    /\ UNCHANGED <<clock, gitVars, watcherVars, identityVars, taskVars, fileVars, messages, reqs>>
    /\ IF create_conversation_code(k) # 200
       THEN UNCHANGED <<conversations, conversation_members>>
       ELSE /\ Len(conversations) < MaxConvs
            /\ conversations' = Append(conversations,
                   [type |-> "group", name |-> name, created_by |-> get_agent_id(k)])
            /\ conversation_members' = conversation_members
                   \cup {<<NewConvId(conversations), get_agent_id(k)>>}
                   \cup {<<NewConvId(conversations), m>> : m \in members \ {get_agent_id(k)}}

\* ---- POST /conversations/{conv_id}/send
\* mutant: the membership test is left out
send_to_conv_code_open(k, c) ==
    IF get_agent_id(k) = NULL THEN 401
    ELSE IF c \notin DOMAIN conversations THEN 404
    ELSE 200

send_to_conv_code(k, c) ==
    IF get_agent_id(k) = NULL THEN 401
    ELSE IF c \notin DOMAIN conversations THEN 404
    ELSE IF ~IsMember(c, get_agent_id(k)) THEN 403
    ELSE 200

send_to_conv(k, c) ==
    /\ UNCHANGED <<clock, gitVars, watcherVars, identityVars, taskVars, fileVars, conversations, conversation_members, reqs>>
    /\ IF send_to_conv_code(k, c) # 200
       THEN UNCHANGED messages
       ELSE /\ Len(messages) < MaxMsgs
            /\ messages' = InsertMessage(messages, c, get_agent_id(k), NULL, clock)

\* ---- POST /conversations/{conv_id}/invite
\* mutant: the type of the conversation is not looked at
invite_agent_code_untyped(k, c) ==
    IF get_agent_id(k) = NULL THEN 401
    ELSE IF c \notin DOMAIN conversations THEN 404
    ELSE IF ~IsMember(c, get_agent_id(k)) THEN 403
    ELSE 200

invite_agent_code(k, c) ==
    IF get_agent_id(k) = NULL THEN 401
    ELSE IF c \notin DOMAIN conversations THEN 404
    ELSE IF conversations[c].type = "dm" THEN 400
    ELSE IF ~IsMember(c, get_agent_id(k)) THEN 403
    ELSE 200

invite_agent(k, c, who) ==
    /\ UNCHANGED <<clock, gitVars, watcherVars, identityVars, taskVars, fileVars, conversations, messages, reqs>>
    /\ IF invite_agent_code(k, c) # 200
       THEN UNCHANGED conversation_members
       ELSE conversation_members' = conversation_members \cup {<<c, who>>}

\* ---- POST /conversations/{conv_id}/leave: a DELETE with no look at the conversation
\* mutant: leaving a conversation one is not in is refused
leave_conv_code_member(k, c) ==
    IF get_agent_id(k) = NULL THEN 401
    ELSE IF ~IsMember(c, get_agent_id(k)) THEN 404
    ELSE 200

leave_conv_code(k, c) ==
    IF get_agent_id(k) = NULL THEN 401 ELSE 200

LeaveMembers(members, c, agent) == members \ {<<c, agent>>}

leave_conv(k, c) ==
    /\ UNCHANGED <<clock, gitVars, watcherVars, identityVars, taskVars, fileVars, conversations, messages, reqs>>
    /\ IF leave_conv_code(k, c) # 200
       THEN UNCHANGED conversation_members
       ELSE conversation_members' = LeaveMembers(conversation_members, c, get_agent_id(k))

\* ---- POST /inbox/{msg_id}/read: UPDATE messages SET read = 1 WHERE id = ?
\* mutant: only a member of the message's conversation may mark it
mark_read_code_members(k, m) ==
    IF get_agent_id(k) = NULL THEN 401
    ELSE IF m \notin DOMAIN messages THEN 404
    ELSE IF ~IsMember(messages[m].conversation_id, get_agent_id(k)) THEN 403
    ELSE 200

mark_read_code(k, m) ==
    IF get_agent_id(k) = NULL THEN 401
    ELSE IF m \notin DOMAIN messages THEN 404
    ELSE 200

mark_read(k, m) ==
    /\ UNCHANGED <<clock, gitVars, watcherVars, identityVars, taskVars, fileVars, conversations, conversation_members, reqs>>
    /\ IF mark_read_code(k, m) # 200
       THEN UNCHANGED messages
       ELSE messages' = [messages EXCEPT ![m].read = 1]

\* ---- GET /inbox: the rows its WHERE clause selects for agent_id (since = 0: no filter)
\* mutant: since is inclusive
InboxRowsInFrom(msgs, members, agent_id, since) ==
    {m \in DOMAIN msgs :
        /\ IsMemberIn(members, msgs[m].conversation_id, agent_id)
        /\ msgs[m].from_agent # agent_id
        /\ msgs[m].read = 0
        /\ (since # 0 => msgs[m].timestamp >= since)}

InboxRowsIn(msgs, members, agent_id, since) ==
    {m \in DOMAIN msgs :
        /\ IsMemberIn(members, msgs[m].conversation_id, agent_id)
        /\ msgs[m].from_agent # agent_id
        /\ msgs[m].read = 0
        /\ (since # 0 => msgs[m].timestamp > since)}
InboxRows(agent_id, since) == InboxRowsIn(messages, conversation_members, agent_id, since)

\* ORDER BY m.timestamp ASC: any order of the rows that is ascending in timestamp
\* (rows of equal timestamp come in an order SQLite does not promise)
OrderByTimestamp(rows) ==
    {q \in [1..Cardinality(rows) -> rows] :
        /\ \A i, j \in DOMAIN q : i # j => q[i] # q[j]
        /\ \A i, j \in DOMAIN q : i < j => messages[q[i]].timestamp <= messages[q[j]].timestamp}

\* LIMIT ?: the first limit rows (SQLite: a negative limit is no limit)
Limit(q, limit) ==
    IF limit < 0 \/ limit >= Len(q) THEN q ELSE SubSeq(q, 1, limit)

get_inbox_code(k) == IF get_agent_id(k) = NULL THEN 401 ELSE 200

\* the "messages" lists GET /inbox may answer with
get_inbox(k, since, limit) ==
    {Limit(q, limit) : q \in OrderByTimestamp(InboxRows(get_agent_id(k), since))}

\* the since and limit parameters drawn (since 0: not given)
Sinces == 0..MaxClock
Limits == 0..MaxLimit

\* The requests the messaging specification draws
MsgAgents == {"alice", "bob"}
MsgKeys == 1..Cardinality(MsgAgents)
\* uploads: a 10-byte file written, refused by the disk (ENOSPC, EACCES), empty, over-size
FileUploads ==
    {[size |-> 10, errno |-> 0], [size |-> 10, errno |-> 28], [size |-> 10, errno |-> 13],
     [size |-> 0, errno |-> 0], [size |-> MAX_FILE_SIZE + 1, errno |-> 0]}
InitialMembers == {{}, {"alice", "carol"}}

NextMessaging ==
    \/ \E n \in MsgAgents : register_agent(n, ADMIN_SECRET)
    \/ \E k \in MsgKeys, to \in Names : send_dm(k, to)
    \/ \E k \in MsgKeys, to \in Names, u \in FileUploads :
            send_dm_with_file(k, to, u.size, u.errno)
    \/ \E k \in MsgKeys, members \in InitialMembers : create_conversation(k, "team", members)
    \/ \E k \in MsgKeys, c \in ConvIds, who \in Names : invite_agent(k, c, who)
    \/ \E k \in MsgKeys, c \in ConvIds : leave_conv(k, c)

SpecMessaging == Init /\ [][NextMessaging]_vars

\* the handlers that append messages, and leave_conv, which takes a sender's membership away
NextSend ==
    \/ \E n \in MsgAgents : register_agent(n, ADMIN_SECRET)
    \/ create_conversation(1, "team", {"alice", "bob"})
    \/ \E k \in MsgKeys, to \in MsgAgents : send_dm(k, to)
    \/ \E k \in MsgKeys : send_dm_with_file(k, "bob", 10, 0)
    \/ \E k \in MsgKeys, c \in ConvIds : send_to_conv(k, c)
    \/ \E c \in ConvIds : leave_conv(2, c)

SpecSend == Init /\ [][NextSend]_vars

\* invites into dms and groups
NextInvite ==
    \/ \E n \in MsgAgents : register_agent(n, ADMIN_SECRET)
    \/ \E k \in MsgKeys : send_dm(k, "carol")
    \/ \E k \in MsgKeys : create_conversation(k, "team", {})
    \/ \E k \in MsgKeys, c \in ConvIds, who \in Names : invite_agent(k, c, who)

SpecInvite == Init /\ [][NextInvite]_vars

\* ---- migrate_legacy, run at start-up after init_db
\* the three tables it reads and writes
Store == [convs |-> conversations, members |-> conversation_members, msgs |-> messages]

\* SELECT DISTINCT from_agent, to_agent FROM messages
\* WHERE conversation_id IS NULL AND to_agent IS NOT NULL
Orphans(msgs) ==
    {<<msgs[m].from_agent, msgs[m].to_agent>> :
        m \in {x \in DOMAIN msgs : msgs[x].conversation_id = NO_ID /\ msgs[x].to_agent # NULL}}

\* the dm SELECT of the loop, on the rows written so far: a matching id, or NO_ID
LegacyDmSelect(st, pair) ==
    LET ab == Sorted2(pair[1], pair[2])
        hits == {c \in DOMAIN st.convs :
                    /\ st.convs[c].type = "dm"
                    /\ IsMemberIn(st.members, c, ab[1])
                    /\ IsMemberIn(st.members, c, ab[2])}
    IN  IF hits = {} THEN {NO_ID} ELSE hits

\* UPDATE messages SET conversation_id = ? WHERE conversation_id IS NULL AND
\* ((from_agent = ? AND to_agent = ?) OR (from_agent = ? AND to_agent = ?))
AttachPair(msgs, pair, cid) ==
    [m \in DOMAIN msgs |->
        IF /\ msgs[m].conversation_id = NO_ID
           /\ \/ msgs[m].from_agent = pair[1] /\ msgs[m].to_agent = pair[2]
              \/ msgs[m].from_agent = pair[2] /\ msgs[m].to_agent = pair[1]
        THEN [msgs[m] EXCEPT !.conversation_id = cid]
        ELSE msgs[m]]

\* mutant: the new dm gets a member row for the first name of the pair only
MigratePairOneMember(st, pair, found) ==
    LET ab == Sorted2(pair[1], pair[2])
        cid == DmId(st.convs, found)
    IN  [convs |-> IF found # NO_ID THEN st.convs
                   ELSE Append(st.convs, [type |-> "dm", name |-> ab[1] \o " <-> " \o ab[2],
                                          created_by |-> NULL]),
         members |-> IF found # NO_ID THEN st.members
                     ELSE st.members \cup {<<cid, ab[1]>>},
         msgs |-> AttachPair(st.msgs, pair, cid)]

\* one turn of the loop for an orphan pair, the dm SELECT having returned found
MigratePair(st, pair, found) ==
    LET ab == Sorted2(pair[1], pair[2])
        cid == DmId(st.convs, found)
    IN  [convs |-> IF found # NO_ID THEN st.convs
                   ELSE Append(st.convs, [type |-> "dm", name |-> ab[1] \o " <-> " \o ab[2],
                                          created_by |-> NULL]),
         members |-> IF found # NO_ID THEN st.members
                     ELSE st.members \cup {<<cid, ab[1]>>, <<cid, ab[2]>>},
         msgs |-> AttachPair(st.msgs, pair, cid)]

RECURSIVE MigrateRows(_, _)
\* for row in orphans: the stores the loop may end in (SELECT DISTINCT promises no
\* order of the pairs, fetchone() no choice among several matching dms)
MigrateRows(st, todo) ==
    IF todo = {} THEN {st}
    ELSE UNION {UNION {MigrateRows(MigratePair(st, p, found), todo \ {p}) :
                            found \in LegacyDmSelect(st, p)} : p \in todo}

\* the stores one run may leave
MigrateOutcomes == MigrateRows(Store, Orphans(messages))

migrate_legacy ==
    /\ UNCHANGED <<clock, gitVars, watcherVars, identityVars, taskVars, fileVars, reqs>>
    /\ \E out \in MigrateOutcomes :
        /\ conversations' = out.convs
        /\ conversation_members' = out.members
        /\ messages' = out.msgs

\* a messages table written before conversations existed: ALTER TABLE has added
\* conversation_id, NULL in every row
LegacyRows ==
    {[conversation_id |-> NO_ID, from_agent |-> f, to_agent |-> t, timestamp |-> 1, read |-> 0] :
        f \in MsgAgents, t \in MsgAgents \cup {NULL}}
LegacyStores == UNION {[1..n -> LegacyRows] : n \in 0..MaxMsgs}

InitLegacy ==
    /\ clock = 1
    /\ api_keys = {}
    /\ pending_registrations = << >>
    /\ tasks = << >>
    /\ task_dependencies = {}
    /\ task_comments = EmptyBag
    /\ task_history = EmptyBag
    /\ conversations = << >>
    /\ conversation_members = {}
    /\ messages \in LegacyStores
    /\ files = << >>
    /\ disk = {}
    /\ file_seq = 0
    /\ git_repos = << >>
    /\ git_branches = << >>
    /\ git_commits = << >>
    /\ git_files = << >>
    /\ reqs = [s \in Slots |-> IdleReq]
    /\ pending_messages = << >>
    /\ notified_ids = {}
    /\ last_reply_time = 0
    /\ watcher_time = REPLY_INTERVAL

\* start-ups on a legacy store, with dms sent in between
NextMigrate ==
    \/ migrate_legacy
    \/ \E n \in MsgAgents : register_agent(n, ADMIN_SECRET)
    \/ \E k \in MsgKeys, to \in MsgAgents : send_dm(k, to)

SpecMigrate == InitLegacy /\ [][NextMigrate]_vars

\* the handlers that write and read the messages of an inbox
NextInbox ==
    \/ Tick
    \/ \E n \in MsgAgents : register_agent(n, ADMIN_SECRET)
    \/ create_conversation(1, "team", {"alice", "bob"})
    \/ \E k \in MsgKeys : send_dm(k, "alice")
    \/ \E c \in ConvIds : send_to_conv(2, c)
    \/ \E k \in MsgKeys, m \in MsgIds : mark_read(k, m)

SpecInbox == Init /\ [][NextInbox]_vars

\* ---- send_dm and send_dm_with_file as two steps: find_or_create_dm's SELECT,
\* then the write transaction (for send-file: the disk write, then the transaction)
send_dm_begin(s, k, to) ==
    /\ SlotFree(s)
    /\ UNCHANGED <<clock, gitVars, watcherVars, identityVars, taskVars, msgVars, fileVars>>
    /\ IF send_dm_code(k, to) # 200
       THEN reqs' = [reqs EXCEPT ![s] =
                [IdleReq EXCEPT !.op = "send_dm", !.pc = "done", !.to = to,
                                !.code = send_dm_code(k, to)]]
       ELSE \E found \in DmSelect(get_agent_id(k), to) :
                reqs' = [reqs EXCEPT ![s] =
                    [IdleReq EXCEPT !.op = "send_dm", !.pc = "txn", !.agent = get_agent_id(k),
                                    !.to = to, !.snap = found]]

send_dm_commit(s) ==
    /\ reqs[s].op = "send_dm" /\ reqs[s].pc = "txn"
    /\ UNCHANGED <<clock, gitVars, watcherVars, identityVars, taskVars, fileVars>>
    /\ send_dm_txn(reqs[s].agent, reqs[s].to, reqs[s].snap)
    /\ reqs' = [reqs EXCEPT ![s].pc = "done", ![s].code = 200,
                            ![s].id = DmId(conversations, reqs[s].snap)]

send_file_begin(s, k, to, size) ==
    /\ SlotFree(s)
    /\ UNCHANGED <<clock, gitVars, watcherVars, identityVars, taskVars, msgVars, fileVars>>
    /\ IF send_dm_with_file_code(k, to, size, 0) # 200
       THEN reqs' = [reqs EXCEPT ![s] =
                [IdleReq EXCEPT !.op = "send_dm_with_file", !.pc = "done", !.to = to,
                                !.code = send_dm_with_file_code(k, to, size, 0)]]
       ELSE \E found \in DmSelect(get_agent_id(k), to) :
                reqs' = [reqs EXCEPT ![s] =
                    [IdleReq EXCEPT !.op = "send_dm_with_file", !.pc = "txn",
                                    !.agent = get_agent_id(k), !.to = to, !.snap = found]]

send_file_commit(s, errno) ==
    /\ reqs[s].op = "send_dm_with_file" /\ reqs[s].pc = "txn"
    /\ UNCHANGED <<clock, gitVars, watcherVars, identityVars, taskVars>>
    /\ send_dm_with_file_txn(reqs[s].agent, reqs[s].to, reqs[s].snap, errno)
    /\ reqs' = [reqs EXCEPT ![s].pc = "done",
                            ![s].code = IF errno = 0 THEN 200 ELSE IF errno = 28 THEN 507 ELSE 500,
                            ![s].id = IF errno = 0 THEN DmId(conversations, reqs[s].snap) ELSE NO_ID]

\* upload and delete in two steps: the blob on disk first, the row (own connection,
\* own transaction) after it
upload_begin(s, k, conversation_id, size) ==
    /\ SlotFree(s)
    /\ UNCHANGED <<clock, gitVars, watcherVars, identityVars, taskVars, msgVars, files>>
    /\ IF upload_file_code(k, conversation_id, size, 0) # 200
       THEN /\ UNCHANGED <<disk, file_seq>>
            /\ reqs' = [reqs EXCEPT ![s] =
                    [IdleReq EXCEPT !.op = "upload_file", !.pc = "done",
                                    !.code = upload_file_code(k, conversation_id, size, 0)]]
       ELSE /\ file_seq < MaxFiles
            /\ file_seq' = file_seq + 1
            /\ disk' = WriteBlob(disk, NewFileId, 0)
            /\ reqs' = [reqs EXCEPT ![s] =
                    [IdleReq EXCEPT !.op = "upload_file", !.pc = "txn",
                                    !.agent = get_agent_id(k), !.id = NewFileId,
                                    !.snap = conversation_id]]

\* failed: the INSERT or the commit raised; the handler removes the blob and answers 500
upload_commit(s, failed) ==
    /\ reqs[s].op = "upload_file" /\ reqs[s].pc = "txn"
    /\ UNCHANGED <<clock, gitVars, watcherVars, identityVars, taskVars, msgVars, file_seq>>
    /\ IF failed
       THEN /\ disk' = RemoveBlob(disk, reqs[s].id)
            /\ UNCHANGED files
            /\ reqs' = [reqs EXCEPT ![s].pc = "done", ![s].code = 500]
       ELSE /\ UNCHANGED disk
            /\ files' = InsertFile(files, reqs[s].id, reqs[s].agent, reqs[s].snap, NO_ID)
            /\ reqs' = [reqs EXCEPT ![s].pc = "done", ![s].code = 200]

delete_begin(s, k, f, removed) ==
    /\ SlotFree(s)
    /\ UNCHANGED <<clock, gitVars, watcherVars, identityVars, taskVars, msgVars, files, file_seq>>
    /\ IF delete_file_code(k, f) # 200
       THEN /\ UNCHANGED disk
            /\ reqs' = [reqs EXCEPT ![s] =
                    [IdleReq EXCEPT !.op = "delete_file", !.pc = "done", !.id = f,
                                    !.code = delete_file_code(k, f)]]
       ELSE /\ disk' = IF removed THEN RemoveBlob(disk, f) ELSE disk
            /\ reqs' = [reqs EXCEPT ![s] =
                    [IdleReq EXCEPT !.op = "delete_file", !.pc = "txn",
                                    !.agent = get_agent_id(k), !.id = f]]

\* the answer {"ok": True, "deleted": file_id} follows the commit
delete_commit(s) ==
    /\ reqs[s].op = "delete_file" /\ reqs[s].pc = "txn"
    /\ UNCHANGED <<clock, gitVars, watcherVars, identityVars, taskVars, msgVars, disk, file_seq>>
    /\ files' = DeleteFileRow(files, reqs[s].id)
    /\ reqs' = [reqs EXCEPT ![s].pc = "done", ![s].code = 200]

FileAgents == {"alice", "bob"}
FileKeys == 1..Cardinality(FileAgents)
FileIds == 1..MaxFiles

\* the files API and POST /send-file, served one after another; the failing disk
\* writes are drawn for POST /send-file, which shares the write path of the upload
NextFiles ==
    \/ \E n \in FileAgents : register_agent(n, ADMIN_SECRET)
    \/ create_conversation(1, "team", {})
    \/ send_dm(1, "bob")
    \/ \E k \in FileKeys, c \in {NO_ID, 1} : upload_file(k, c, 10, 0)
    \/ \E k \in FileKeys, to \in FileAgents, u \in FileUploads :
            send_dm_with_file(k, to, u.size, u.errno)
    \/ \E k \in FileKeys, f \in FileIds, removed \in BOOLEAN : delete_file(k, f, removed)

SpecFiles == Init /\ [][NextFiles]_vars

\* uploads and deletes that overlap
NextFilesConc ==
    \/ \E n \in FileAgents : register_agent(n, ADMIN_SECRET)
    \/ \E s \in Slots, k \in FileKeys : upload_begin(s, k, NO_ID, 10)
    \/ \E s \in Slots, failed \in BOOLEAN : upload_commit(s, failed)
    \/ \E s \in Slots, k \in FileKeys, f \in FileIds, removed \in BOOLEAN :
            delete_begin(s, k, f, removed)
    \/ \E s \in Slots : delete_commit(s)

SpecFilesConc == Init /\ [][NextFilesConc]_vars

NextMessagingConc ==
    \/ \E n \in MsgAgents : register_agent(n, ADMIN_SECRET)
    \/ \E s \in Slots, k \in MsgKeys, to \in Names : send_dm_begin(s, k, to)
    \/ \E s \in Slots : send_dm_commit(s)
    \/ \E s \in Slots, k \in MsgKeys, to \in Names, size \in {0, 10} : send_file_begin(s, k, to, size)
    \/ \E s \in Slots, errno \in {0, 28} : send_file_commit(s, errno)

SpecMessagingConc == Init /\ [][NextMessagingConc]_vars

\* --------------------------------------------------- claims on messaging

DmsOf(a, b) ==
    {c \in DOMAIN conversations : conversations[c].type = "dm" /\ MembersOf(c) = {a, b}}

\* C2: for every pair of agents (A,B) at most one dm conversation has exactly the
\* members {A,B}, and a send from A to B and one from B to A end in the same conversation.
C2_OneDmPerPair ==
    /\ \A a, b \in Names : a # b => Cardinality(DmsOf(a, b)) <= 1
    /\ \A s1, s2 \in Slots :
          ( /\ reqs[s1].pc = "done" /\ reqs[s1].code = 200
            /\ reqs[s2].pc = "done" /\ reqs[s2].code = 200
            /\ {reqs[s1].agent, reqs[s1].to} = {reqs[s2].agent, reqs[s2].to}
            /\ reqs[s1].agent # reqs[s1].to )
          => reqs[s1].id = reqs[s2].id

\* C9: every dm conversation has exactly two members and every group at least one.
C9_MemberCounts ==
    \A c \in DOMAIN conversations :
        IF conversations[c].type = "dm"
        THEN Cardinality(MembersOf(c)) = 2
        ELSE Cardinality(MembersOf(c)) >= 1

\* C10: a message appended by POST /send from A to B is stored in a conversation
\* whose members are exactly {A,B}, and is in the inbox of no agent other than B.
C10_SendReachesOnlyRecipient ==
    [][\A k \in MsgKeys, to \in Names :
        (send_dm(k, to) /\ send_dm_code(k, to) = 200) =>
            LET m == NewMsgId(messages) IN
            /\ MembersIn(conversation_members', messages'[m].conversation_id)
                   = {get_agent_id(k), to}
            /\ \A x \in Names \ {to} :
                   m \notin InboxRowsIn(messages', conversation_members', x, 0)]_vars

\* C11: every message is appended by a member of its conversation: in the state the
\* append commits, a membership row for (conversation_id, from_agent) exists, for
\* /send, /send-file and /conversations/{id}/send alike.
C11_SenderIsMember ==
    [][\A m \in DOMAIN messages' \ DOMAIN messages :
            IsMemberIn(conversation_members', messages'[m].conversation_id,
                       messages'[m].from_agent)]_vars

\* a group message is stored, and a registered agent who left the group is refused
C11_Witness ==
    \E m \in DOMAIN messages, k \in MsgKeys :
        /\ conversations[messages[m].conversation_id].type = "group"
        /\ IsMember(messages[m].conversation_id, messages[m].from_agent)
        /\ send_to_conv_code(k, messages[m].conversation_id) = 403

Range(q) == {q[i] : i \in DOMAIN q}
Min(a, b) == IF a <= b THEN a ELSE b

\* the messages the inbox of agent x is to show
Unread(x, since) ==
    {m \in DOMAIN messages :
        /\ messages[m].read = 0
        /\ messages[m].from_agent # x
        /\ <<messages[m].conversation_id, x>> \in conversation_members
        /\ messages[m].timestamp > since}

\* C12: GET /inbox for caller X answers exactly the unread messages of other authors
\* in conversations X is a member of (later than since when given), ascending in
\* timestamp, cut to the first limit of them.
C12_InboxContents ==
    \A k \in MsgKeys, since \in Sinces, limit \in Limits :
        get_inbox_code(k) = 200 =>
            \A r \in get_inbox(k, since, limit) :
                LET W == Unread(get_agent_id(k), since) IN
                /\ Range(r) \subseteq W
                /\ Len(r) = Min(limit, Cardinality(W))
                /\ Cardinality(Range(r)) = Len(r)
                /\ \A i, j \in DOMAIN r :
                       i < j => messages[r[i]].timestamp <= messages[r[j]].timestamp
                /\ \A m \in W \ Range(r), i \in DOMAIN r :
                       messages[r[i]].timestamp <= messages[m].timestamp

\* an inbox of two messages of different age: limit 1 cuts it, since = 1 filters it
C12_Witness ==
    \E k \in MsgKeys :
        /\ get_inbox_code(k) = 200
        /\ Cardinality(InboxRows(get_agent_id(k), 0)) = 2
        /\ Cardinality(InboxRows(get_agent_id(k), 1)) = 1
        /\ \A r \in get_inbox(k, 0, 1) : Len(r) = 1 /\ messages[r[1]].timestamp = 1

\* C13: any authenticated agent, member or not, may mark an existing message read;
\* from then on the message is in no agent's inbox; on an id that is no message the
\* answer is 404 and no message changes.
C13_ReadHidesForAll ==
    /\ [](\A k \in MsgKeys, m \in MsgIds : get_agent_id(k) # NULL =>
              mark_read_code(k, m) = IF m \in DOMAIN messages THEN 200 ELSE 404)
    /\ [](\A m \in DOMAIN messages : messages[m].read = 1 =>
              \A x \in Names, since \in Sinces : m \notin InboxRows(x, since))
    /\ [][\A m \in DOMAIN messages : messages[m].read = 1 =>
              m \in DOMAIN messages' /\ messages'[m].read = 1]_vars
    /\ [][\A k \in MsgKeys, m \in MsgIds : (get_agent_id(k) # NULL /\ mark_read(k, m)) =>
              IF mark_read_code(k, m) = 200
              THEN messages'[m].read = 1
              ELSE messages' = messages]_vars

\* a message marked read while a registered agent is no member of its conversation
C13_Witness ==
    \E m \in DOMAIN messages, k \in MsgKeys :
        /\ messages[m].read = 1
        /\ get_agent_id(k) # NULL
        /\ ~IsMember(messages[m].conversation_id, get_agent_id(k))

\* C14: a dm sent to a name b that is not registered yet is in b's inbox once b
\* registers, and a message addressed to b stays in b's inbox until it is marked read.
C14_LateRecipientSees ==
    /\ [][\A b \in Names : (b \notin Agents /\ b \in Agents') =>
              \A m \in DOMAIN messages :
                  (messages[m].to_agent = b /\ messages[m].from_agent # b /\ messages[m].read = 0)
                      => m \in InboxRowsIn(messages', conversation_members', b, 0)]_vars
    /\ [][\A b \in Agents, m \in DOMAIN messages :
              (messages[m].to_agent = b /\ m \in InboxRows(b, 0)) =>
                  \/ m \in InboxRowsIn(messages', conversation_members', b, 0)
                  \/ messages'[m].read = 1]_vars

\* ================================================================= Tasks

PRIORITIES == {"low", "normal", "high", "urgent"}
STATUSES == {"open", "claimed", "in_progress", "done", "blocked", "cancelled"}

\* datetime.fromisoformat(s) raises ValueError on a malformed string
IsoValid(s) == s # "garbage"

\* _add_task_history: INSERT INTO task_history (id, task_id, agent_name, action, details, created_at)
\* No look at the tasks table: the row is written for any task_id.  The row keeps
\* task_id and action; agent_name and details are only ever read back by GET /tasks/{id}.
AddTaskHistory(h, task_id, agent_name, action, details) ==
    h (+) SetToBag({[task_id |-> task_id, action |-> action]})

\* INSERT INTO task_comments (id, task_id, agent_name, content, created_at)
AddTaskComment(c, task_id, agent_name, content) ==
    c (+) SetToBag({[task_id |-> task_id, agent_name |-> agent_name, content |-> content]})

HistoryRoom == BagCardinality(task_history) < MaxHistory
CommentRoom == BagCardinality(task_comments) < MaxComments

\* SELECT * FROM tasks WHERE id = ?
TaskExists(t) == t \in DOMAIN tasks

\* str(uuid.uuid4()) for a new task: an id no row carries
NewTaskId == Len(tasks) + 1

\* POST /tasks: the status code
create_task_code(k, priority, due_by, parent_id) ==
    IF get_agent_id(k) = NULL THEN 401
    ELSE IF priority \notin PRIORITIES THEN 400
    ELSE IF due_by # NULL /\ ~IsoValid(due_by) THEN 400
    ELSE IF parent_id # NO_ID /\ ~TaskExists(parent_id) THEN 404
    ELSE 200

\* create_task's INSERT INTO tasks: status 'open', claimed_by and completed_at NULL
NewTaskRow(priority, parent_id) ==
    [status |-> "open", priority |-> priority, claimed_by |-> NULL,
     completed_at |-> NULL_TIME, parent_id |-> parent_id]

\* POST /tasks
create_task(k, priority, due_by, parent_id, depends_on) ==
    /\ UNCHANGED <<clock, gitVars, watcherVars, identityVars, task_comments, msgVars, fileVars, reqs>>
    /\ IF create_task_code(k, priority, due_by, parent_id) # 200
       THEN UNCHANGED <<tasks, task_dependencies, task_history>>
       ELSE /\ Len(tasks) < MaxTasks
            /\ HistoryRoom
            /\ tasks' = Append(tasks, NewTaskRow(priority, parent_id))
            \* INSERT OR IGNORE for each dep_id that is the id of a task (the new
            \* task's own uuid is not known to the caller)
            /\ task_dependencies' = task_dependencies \cup
                   {<<NewTaskId, d>> : d \in {x \in depends_on : x \in DOMAIN tasks}}
            /\ task_history' = AddTaskHistory(task_history, NewTaskId, get_agent_id(k),
                                              "created", "Created task")

\* ---- PATCH /tasks/{task_id}
\* body: [status, priority], NULL for a field the request does not name
PatchNamed(body) == body.status # NULL \/ body.priority # NULL

update_task_code(k, t, body) ==
    IF get_agent_id(k) = NULL THEN 401
    ELSE IF ~TaskExists(t) THEN 404
    ELSE IF body.priority # NULL /\ body.priority \notin PRIORITIES THEN 400
    ELSE IF body.status # NULL /\ body.status \notin STATUSES THEN 400
    ELSE IF ~PatchNamed(body) THEN 400
    ELSE 200

\* "; ".join(changes)
PatchChanges(body) ==
    IF body.priority # NULL /\ body.status # NULL
    THEN "priority -> " \o body.priority \o "; status -> " \o body.status
    ELSE IF body.priority # NULL THEN "priority -> " \o body.priority
    ELSE "status -> " \o body.status

\* mutant: the UPDATE writes every column, a default for the ones the body leaves out
PatchRowWhole(row, body, now) ==
    [row EXCEPT
        !.priority = IF body.priority # NULL THEN body.priority ELSE "normal",
        !.status = IF body.status # NULL THEN body.status ELSE "open",
        !.completed_at = IF body.status = "done" THEN now ELSE @]

\* the column list of update_task's UPDATE tasks SET ...
PatchRow(row, body, now) ==
    [row EXCEPT
        !.priority = IF body.priority # NULL THEN body.priority ELSE @,
        !.status = IF body.status # NULL THEN body.status ELSE @,
        !.completed_at = IF body.status = "done" THEN now ELSE @]

update_task(k, t, body) ==
    /\ UNCHANGED <<clock, gitVars, watcherVars, identityVars, task_dependencies, task_comments, msgVars, fileVars, reqs>>
    /\ IF update_task_code(k, t, body) # 200
       THEN UNCHANGED <<tasks, task_history>>
       ELSE /\ HistoryRoom
            /\ tasks' = [tasks EXCEPT ![t] = PatchRow(@, body, clock)]
            /\ task_history' = AddTaskHistory(task_history, t, get_agent_id(k),
                                              "updated", PatchChanges(body))

\* ---- POST /tasks/{task_id}/claim
\* mutant: a blocked task may be claimed too
ClaimLegalAlsoBlocked(status) == status \in {"open", "blocked"}

ClaimLegal(status) == status = "open"

claim_task_code(k, t) ==
    IF get_agent_id(k) = NULL THEN 401
    ELSE IF ~TaskExists(t) THEN 404
    ELSE IF ~ClaimLegal(tasks[t].status) THEN 400
    ELSE 200

\* UPDATE tasks SET status = 'claimed', claimed_by = ?, updated_at = ? WHERE id = ?
ClaimRow(row, agent) == [row EXCEPT !.status = "claimed", !.claimed_by = agent]

claim_task(k, t) ==
    /\ UNCHANGED <<clock, gitVars, watcherVars, identityVars, task_dependencies, task_comments, msgVars, fileVars, reqs>>
    /\ IF claim_task_code(k, t) # 200
       THEN UNCHANGED <<tasks, task_history>>
       ELSE /\ HistoryRoom
            /\ tasks' = [tasks EXCEPT ![t] = ClaimRow(@, get_agent_id(k))]
            /\ task_history' = AddTaskHistory(task_history, t, get_agent_id(k), "claimed",
                                              get_agent_id(k) \o " claimed this task")

\* ---- POST /tasks/{task_id}/start
StartLegal(status) == status \in {"open", "claimed"}

start_task_code(k, t) ==
    IF get_agent_id(k) = NULL THEN 401
    ELSE IF ~TaskExists(t) THEN 404
    ELSE IF ~StartLegal(tasks[t].status) THEN 400
    ELSE 200

\* mutant: claimed_by is overwritten by the caller (no COALESCE)
StartRowOverwrite(row, agent) ==
    [row EXCEPT !.status = "in_progress", !.claimed_by = agent]

\* UPDATE tasks SET status = 'in_progress', claimed_by = COALESCE(claimed_by, ?), updated_at = ?
StartRow(row, agent) ==
    [row EXCEPT !.status = "in_progress",
                !.claimed_by = IF @ # NULL THEN @ ELSE agent]

start_task(k, t) ==
    /\ UNCHANGED <<clock, gitVars, watcherVars, identityVars, task_dependencies, task_comments, msgVars, fileVars, reqs>>
    /\ IF start_task_code(k, t) # 200
       THEN UNCHANGED <<tasks, task_history>>
       ELSE /\ HistoryRoom
            /\ tasks' = [tasks EXCEPT ![t] = StartRow(@, get_agent_id(k))]
            /\ task_history' = AddTaskHistory(task_history, t, get_agent_id(k), "started",
                                              get_agent_id(k) \o " started working")

\* ---- POST /tasks/{task_id}/complete
\* mutant: only a done task is refused
CompleteLegalCancelled(status) == status # "done"

CompleteLegal(status) == status \notin {"done", "cancelled"}

complete_task_code(k, t) ==
    IF get_agent_id(k) = NULL THEN 401
    ELSE IF ~TaskExists(t) THEN 404
    ELSE IF ~CompleteLegal(tasks[t].status) THEN 400
    ELSE 200

\* mutant: the UPDATE forgets completed_at
CompleteRowNoStamp(row, now) == [row EXCEPT !.status = "done"]

\* UPDATE tasks SET status = 'done', completed_at = ?, updated_at = ? WHERE id = ?
CompleteRow(row, now) == [row EXCEPT !.status = "done", !.completed_at = now]

complete_task(k, t) ==
    /\ UNCHANGED <<clock, gitVars, watcherVars, identityVars, task_dependencies, task_comments, msgVars, fileVars, reqs>>
    /\ IF complete_task_code(k, t) # 200
       THEN UNCHANGED <<tasks, task_history>>
       ELSE /\ HistoryRoom
            /\ tasks' = [tasks EXCEPT ![t] = CompleteRow(@, clock)]
            /\ task_history' = AddTaskHistory(task_history, t, get_agent_id(k), "completed",
                                              get_agent_id(k) \o " completed this task")

\* ---- POST /tasks/{task_id}/block
block_task_code(k, t) ==
    IF get_agent_id(k) = NULL THEN 401
    ELSE IF ~TaskExists(t) THEN 404
    ELSE 200

\* UPDATE tasks SET status = 'blocked', updated_at = ? WHERE id = ?   (from any status)
BlockRow(row) == [row EXCEPT !.status = "blocked"]

block_task(k, t, content) ==
    /\ UNCHANGED <<clock, gitVars, watcherVars, identityVars, task_dependencies, msgVars, fileVars, reqs>>
    /\ IF block_task_code(k, t) # 200
       THEN UNCHANGED <<tasks, task_history, task_comments>>
       ELSE /\ HistoryRoom
            /\ CommentRoom
            /\ tasks' = [tasks EXCEPT ![t] = BlockRow(@)]
            /\ task_history' = AddTaskHistory(task_history, t, get_agent_id(k), "blocked", content)
            /\ task_comments' = AddTaskComment(task_comments, t, get_agent_id(k),
                                               "Blocked: " \o content)

\* ---- POST /tasks/{task_id}/comments
add_task_comment_code(k, t) ==
    IF get_agent_id(k) = NULL THEN 401
    ELSE IF ~TaskExists(t) THEN 404
    ELSE 200

add_task_comment(k, t, content) ==
    /\ UNCHANGED <<clock, gitVars, watcherVars, identityVars, tasks, task_dependencies, task_history, msgVars, fileVars, reqs>>
    /\ IF add_task_comment_code(k, t) # 200
       THEN UNCHANGED task_comments
       ELSE /\ CommentRoom
            /\ task_comments' = AddTaskComment(task_comments, t, get_agent_id(k), content)

\* ---- POST /tasks/{task_id}/dependencies
\* mutant: a task may depend on itself
add_dependency_code_self(k, t, d) ==
    IF get_agent_id(k) = NULL THEN 401
    ELSE IF ~TaskExists(t) THEN 404
    ELSE IF ~TaskExists(d) THEN 404
    ELSE IF <<t, d>> \in task_dependencies THEN 409
    ELSE 200

\* mutant: INSERT OR IGNORE, the second insert of an edge answers 200
add_dependency_code_again(k, t, d) ==
    IF get_agent_id(k) = NULL THEN 401
    ELSE IF ~TaskExists(t) THEN 404
    ELSE IF ~TaskExists(d) THEN 404
    ELSE IF t = d THEN 400
    ELSE 200

add_dependency_code(k, t, d) ==
    IF get_agent_id(k) = NULL THEN 401
    ELSE IF ~TaskExists(t) THEN 404
    ELSE IF ~TaskExists(d) THEN 404
    ELSE IF t = d THEN 400
    ELSE IF <<t, d>> \in task_dependencies THEN 409
    ELSE 200

add_dependency(k, t, d) ==
    /\ UNCHANGED <<clock, gitVars, watcherVars, identityVars, tasks, task_comments, msgVars, fileVars, reqs>>
    /\ IF add_dependency_code(k, t, d) # 200
       THEN UNCHANGED <<task_dependencies, task_history>>
       ELSE /\ HistoryRoom
            /\ task_dependencies' = task_dependencies \cup {<<t, d>>}
            /\ task_history' = AddTaskHistory(task_history, t, get_agent_id(k),
                   "dependency_added", "Now depends on " \o ToString(d))

\* ---- DELETE /tasks/{task_id}/dependencies/{dep_id}: no check of either id
remove_dependency_code(k, t, d) ==
    IF get_agent_id(k) = NULL THEN 401 ELSE 200

remove_dependency(k, t, d) ==
    /\ UNCHANGED <<clock, gitVars, watcherVars, identityVars, tasks, task_comments, msgVars, fileVars, reqs>>
    /\ IF remove_dependency_code(k, t, d) # 200
       THEN UNCHANGED <<task_dependencies, task_history>>
       ELSE /\ HistoryRoom
            /\ task_dependencies' = task_dependencies \ {<<t, d>>}
            /\ task_history' = AddTaskHistory(task_history, t, get_agent_id(k),
                   "dependency_removed", "No longer depends on " \o ToString(d))

\* ---- GET /tasks/{task_id}/dependencies: no look at the task itself
get_dependencies_code(k) ==
    IF get_agent_id(k) = NULL THEN 401 ELSE 200

\* SELECT t.* FROM tasks t JOIN task_dependencies d ON t.id = d.depends_on WHERE d.task_id = ?
Blockers(t) == {b \in DOMAIN tasks : <<t, b>> \in task_dependencies}

\* SELECT t.* FROM tasks t JOIN task_dependencies d ON t.id = d.task_id WHERE d.depends_on = ?
Dependents(t) == {a \in DOMAIN tasks : <<a, t>> \in task_dependencies}

\* mutant: every blocker counts, done or not
UnmetAll(blockers) == blockers

\* unmet = [b for b in blockers if b["status"] != "done"]
Unmet(blockers) == {b \in blockers : tasks[b].status # "done"}

\* the response body (the task rows are named by their ids)
get_dependencies(t) ==
    [depends_on |-> Blockers(t),
     unmet_blockers |-> Cardinality(Unmet(Blockers(t))),
     blocks |-> Dependents(t)]

\* The requests the task specifications draw
TaskAgents == {"alice", "bob"}
TaskKeys == 1..Cardinality(TaskAgents)
PatchBodies ==
    [status : {NULL, "open", "done", "cancelled", "bogus"}, priority : {NULL}]
    \cup [status : {NULL}, priority : {"normal", "bogus"}]
CreateBodies ==
    [priority : {"normal"}, due_by : {NULL}, parent_id : {NO_ID, 1}, depends_on : {{}, {1}}]
    \cup {[priority |-> "bogus", due_by |-> NULL, parent_id |-> NO_ID, depends_on |-> {}],
          [priority |-> "normal", due_by |-> "garbage", parent_id |-> NO_ID, depends_on |-> {}]}

\* bodies that name neither a parent nor dependencies
PlainBodies == {b \in CreateBodies : b.parent_id = NO_ID /\ b.depends_on = {}}

\* the handlers that write the tasks table
NextTasks ==
    \/ Tick
    \/ \E n \in TaskAgents : register_agent(n, ADMIN_SECRET)
    \/ \E b \in PlainBodies :
            create_task(1, b.priority, b.due_by, b.parent_id, b.depends_on)
    \/ \E t \in TaskIds, b \in PatchBodies : update_task(1, t, b)
    \/ \E k \in TaskKeys, t \in TaskIds : claim_task(k, t)
    \/ \E k \in TaskKeys, t \in TaskIds : start_task(k, t)
    \/ \E k \in TaskKeys, t \in TaskIds : complete_task(k, t)
    \/ \E t \in TaskIds : block_task(1, t, "waiting")
    
SpecTasks == Init /\ [][NextTasks]_vars

\* the handlers that write comments and dependencies next to a task
NextTaskNotes ==
    \/ \E n \in TaskAgents : register_agent(n, ADMIN_SECRET)
    \/ \E k \in TaskKeys, b \in CreateBodies \ PlainBodies :
            create_task(k, b.priority, b.due_by, b.parent_id, b.depends_on)
    \/ \E k \in TaskKeys : add_task_comment(k, 1, "note")
    \/ \E k \in TaskKeys, t, d \in TaskIds : add_dependency(k, t, d)
    \/ \E k \in TaskKeys, t, d \in TaskIds : remove_dependency(k, t, d)

SpecTaskNotes == Init /\ [][NextTaskNotes]_vars

\* create, complete and the dependency handlers, read back by GET /tasks/{id}/dependencies
DepBodies == {{}, {1}, {1, 2}}

NextDeps ==
    \/ \E n \in TaskAgents : register_agent(n, ADMIN_SECRET)
    \/ \E k \in TaskKeys, deps \in DepBodies : create_task(k, "normal", NULL, NO_ID, deps)
    \/ \E k \in TaskKeys, t \in TaskIds : complete_task(k, t)
    \/ \E k \in TaskKeys, t, d \in TaskIds : add_dependency(k, t, d)
    \/ \E k \in TaskKeys, t, d \in TaskIds : remove_dependency(k, t, d)

SpecDeps == Init /\ [][NextDeps]_vars

\* ---- claim_task in two steps: the SELECT and the status test, then the write
\* transaction (UPDATE, history INSERT, commit).  The slot keeps the status the
\* SELECT returned.
claim_begin(s, k, t) ==
    /\ SlotFree(s)
    /\ UNCHANGED <<clock, gitVars, watcherVars, identityVars, taskVars, msgVars, fileVars>>
    /\ reqs' = [reqs EXCEPT ![s] =
           IF claim_task_code(k, t) # 200
           THEN [IdleReq EXCEPT !.op = "claim_task", !.pc = "done",
                                !.agent = get_agent_id(k), !.id = t,
                                !.code = claim_task_code(k, t)]
           ELSE [IdleReq EXCEPT !.op = "claim_task", !.pc = "txn",
                                !.agent = get_agent_id(k), !.id = t,
                                !.to = tasks[t].status]]

\* the UPDATE names the row by id alone: the status is not looked at again
claim_commit(s) ==
    /\ reqs[s].op = "claim_task" /\ reqs[s].pc = "txn"
    /\ HistoryRoom
    /\ UNCHANGED <<clock, gitVars, watcherVars, identityVars, task_dependencies, task_comments, msgVars, fileVars>>
    /\ tasks' = [tasks EXCEPT ![reqs[s].id] = ClaimRow(@, reqs[s].agent)]
    /\ task_history' = AddTaskHistory(task_history, reqs[s].id, reqs[s].agent, "claimed",
                                      reqs[s].agent \o " claimed this task")
    /\ reqs' = [reqs EXCEPT ![s].pc = "done", ![s].code = 200]

\* claims that overlap
NextClaimConc ==
    \/ \E n \in TaskAgents : register_agent(n, ADMIN_SECRET)
    \/ \E k \in TaskKeys : create_task(k, "normal", NULL, NO_ID, {})
    \/ \E s \in Slots, k \in TaskKeys, t \in TaskIds : claim_begin(s, k, t)
    \/ \E s \in Slots : claim_commit(s)

SpecClaimConc == Init /\ [][NextClaimConc]_vars

\* ---- update_task in two steps: the SELECT and the checks of the body, which also
\* build the column list and read time.time(), then the write transaction
update_begin(s, k, t, body) ==
    /\ SlotFree(s)
    /\ UNCHANGED <<clock, gitVars, watcherVars, identityVars, taskVars, msgVars, fileVars>>
    /\ reqs' = [reqs EXCEPT ![s] =
           IF update_task_code(k, t, body) # 200
           THEN [IdleReq EXCEPT !.op = "update_task", !.pc = "done",
                                !.agent = get_agent_id(k), !.id = t,
                                !.code = update_task_code(k, t, body)]
           ELSE [IdleReq EXCEPT !.op = "update_task", !.pc = "txn",
                                !.agent = get_agent_id(k), !.id = t,
                                !.to = tasks[t].status, !.now = clock, !.body = body]]

update_commit(s) ==
    /\ reqs[s].op = "update_task" /\ reqs[s].pc = "txn"
    /\ HistoryRoom
    /\ UNCHANGED <<clock, gitVars, watcherVars, identityVars, task_dependencies, task_comments, msgVars, fileVars>>
    /\ tasks' = [tasks EXCEPT ![reqs[s].id] = PatchRow(@, reqs[s].body, reqs[s].now)]
    /\ task_history' = AddTaskHistory(task_history, reqs[s].id, reqs[s].agent,
                                      "updated", PatchChanges(reqs[s].body))
    /\ reqs' = [reqs EXCEPT ![s].pc = "done", ![s].code = 200]

ConcPatches ==
    {[status |-> "done", priority |-> NULL], [status |-> "cancelled", priority |-> "low"],
     [status |-> NULL, priority |-> "high"], [status |-> NULL, priority |-> NULL]}

\* PATCH requests that overlap
NextPatchConc ==
    \/ register_agent("alice", ADMIN_SECRET)
    \/ create_task(1, "normal", NULL, NO_ID, {})
    \/ \E s \in Slots, k \in TaskKeys, t \in TaskIds, b \in ConcPatches :
            update_begin(s, k, t, b)
    \/ \E s \in Slots : update_commit(s)

SpecPatchConc == Init /\ [][NextPatchConc]_vars

\* ------------------------------------------------------- claims on tasks

HasHistory(t, action) == BagIn([task_id |-> t, action |-> action], task_history)

\* C1: a claim request succeeds only on an open task; it then sets status claimed
\* and claimed_by to the caller; on any other status it answers 400 and leaves
\* status and claimed_by as they were.
C1_ClaimOnlyFromOpen ==
    /\ [](\A k \in TaskKeys, t \in DOMAIN tasks : get_agent_id(k) # NULL =>
              claim_task_code(k, t) = IF tasks[t].status = "open" THEN 200 ELSE 400)
    /\ [][\A k \in TaskKeys, t \in DOMAIN tasks :
            (get_agent_id(k) # NULL /\ claim_task(k, t)) =>
                IF claim_task_code(k, t) = 200
                THEN /\ tasks'[t].status = "claimed"
                     /\ tasks'[t].claimed_by = get_agent_id(k)
                ELSE /\ tasks'[t].status = tasks[t].status
                     /\ tasks'[t].claimed_by = tasks[t].claimed_by]_vars

\* a task claimed by alice while bob, a second claimer, is registered
C1_Witness ==
    \E t \in DOMAIN tasks :
        /\ tasks[t].status = "claimed" /\ tasks[t].claimed_by = "alice"
        /\ HasHistory(t, "claimed") /\ "bob" \in Agents
        /\ \E k \in TaskKeys : get_agent_id(k) = "bob" /\ claim_task_code(k, t) = 400

\* C5: once a task is done or cancelled, no operation changes its status.
C5_TerminalStatusStays ==
    [][\A t \in DOMAIN tasks :
        tasks[t].status \in {"done", "cancelled"} => tasks'[t].status = tasks[t].status]_vars

\* C6: a done task has a completed_at; a task that is not done and never was has none
\* (a task is created without one, and completed_at changes only in a step that
\* leaves the task done).
C6_CompletedAtIffDone ==
    /\ [](\A t \in DOMAIN tasks : tasks[t].status = "done" => tasks[t].completed_at # NULL_TIME)
    /\ [][\A t \in DOMAIN tasks' :
            IF t \in DOMAIN tasks
            THEN tasks'[t].completed_at # tasks[t].completed_at => tasks'[t].status = "done"
            ELSE tasks'[t].completed_at = NULL_TIME /\ tasks'[t].status # "done"]_vars

\* one task done and stamped, another that never was done
C6_Witness ==
    \E t, u \in DOMAIN tasks :
        /\ tasks[t].status = "done" /\ tasks[t].completed_at # NULL_TIME
        /\ tasks[u].status # "done" /\ tasks[u].completed_at = NULL_TIME

\* C7: start succeeds iff the task is open or claimed; it then sets in_progress and
\* keeps a non-null claimed_by, else sets it to the caller; otherwise 400, task unchanged.
C7_StartFromOpenOrClaimed ==
    /\ [](\A k \in TaskKeys, t \in DOMAIN tasks : get_agent_id(k) # NULL =>
              start_task_code(k, t) = IF tasks[t].status \in {"open", "claimed"} THEN 200 ELSE 400)
    /\ [][\A k \in TaskKeys, t \in DOMAIN tasks :
            (get_agent_id(k) # NULL /\ start_task(k, t)) =>
                IF start_task_code(k, t) = 200
                THEN /\ tasks'[t].status = "in_progress"
                     /\ tasks'[t].claimed_by =
                            IF tasks[t].claimed_by # NULL THEN tasks[t].claimed_by
                            ELSE get_agent_id(k)
                ELSE tasks'[t] = tasks[t]]_vars

\* a started task whose claimer was set by an earlier claim
C7_Witness ==
    \E t \in DOMAIN tasks :
        /\ tasks[t].status = "in_progress" /\ tasks[t].claimed_by # NULL
        /\ HasHistory(t, "claimed") /\ HasHistory(t, "started")

\* C8: complete succeeds iff the task is neither done nor cancelled; it then sets
\* done and completed_at; on a done or cancelled task it answers 400 and changes
\* neither status nor completed_at.
C8_CompleteFromNonTerminal ==
    /\ [](\A k \in TaskKeys, t \in DOMAIN tasks : get_agent_id(k) # NULL =>
              complete_task_code(k, t) =
                  IF tasks[t].status \notin {"done", "cancelled"} THEN 200 ELSE 400)
    /\ [][\A k \in TaskKeys, t \in DOMAIN tasks :
            (get_agent_id(k) # NULL /\ complete_task(k, t)) =>
                IF complete_task_code(k, t) = 200
                THEN /\ tasks'[t].status = "done"
                     /\ tasks'[t].completed_at = clock
                     /\ tasks'[t].completed_at # NULL_TIME
                ELSE /\ tasks'[t].status = tasks[t].status
                     /\ tasks'[t].completed_at = tasks[t].completed_at]_vars

\* a task completed by a complete request, which now refuses a second one
C8_Witness ==
    \E t \in DOMAIN tasks :
        /\ tasks[t].status = "done" /\ HasHistory(t, "completed")
        /\ tasks[t].completed_at # NULL_TIME
        /\ \E k \in TaskKeys : complete_task_code(k, t) = 400

\* C19: every dependency edge (a,b) has a # b and both a and b are ids of tasks,
\* whether create_task or add_dependency inserted it.
C19_EdgesWellFormed ==
    \A e \in task_dependencies :
        e[1] # e[2] /\ e[1] \in DOMAIN tasks /\ e[2] \in DOMAIN tasks

\* one edge written by create_task and the opposite one by add_dependency
C19_Witness ==
    /\ {<<1, 2>>, <<2, 1>>} \subseteq task_dependencies
    /\ HasHistory(1, "dependency_added")

\* C20: adding an edge that is already there answers 409 and changes neither the
\* dependencies nor the tasks nor the history.
C20_DuplicateEdgeRefused ==
    /\ [](\A k \in TaskKeys, e \in task_dependencies :
              get_agent_id(k) # NULL => add_dependency_code(k, e[1], e[2]) = 409)
    /\ [][\A k \in TaskKeys, e \in task_dependencies :
              (get_agent_id(k) # NULL /\ add_dependency(k, e[1], e[2]))
                  => UNCHANGED taskVars]_vars

\* an edge add_dependency inserted, which a second request is refused
C20_Witness ==
    \E e \in task_dependencies, k \in TaskKeys :
        /\ HasHistory(e[1], "dependency_added")
        /\ add_dependency_code(k, e[1], e[2]) = 409

\* C21: GET /tasks/{id}/dependencies lists as depends_on exactly the tasks b with an
\* edge (id,b), and unmet_blockers is the number of those not done; a task created
\* with depends_on = deps (all existing) lists exactly deps; completing one of a
\* task's blockers lowers its count by one.
C21_DependenciesListed ==
    /\ [](\A t \in TaskIds :
            LET E == {b \in TaskIds : <<t, b>> \in task_dependencies} IN
            /\ get_dependencies(t).depends_on = E
            /\ get_dependencies(t).unmet_blockers =
                   Cardinality({b \in E : IF b \in DOMAIN tasks
                                          THEN tasks[b].status # "done" ELSE TRUE}))
    /\ [][\A k \in TaskKeys, deps \in DepBodies, n \in TaskIds :
            (/\ n = NewTaskId /\ deps \subseteq DOMAIN tasks
             /\ create_task_code(k, "normal", NULL, NO_ID) = 200
             /\ create_task(k, "normal", NULL, NO_ID, deps))
                => get_dependencies(n)'.depends_on = deps]_vars
    /\ [][\A k \in TaskKeys, a \in TaskIds, t \in TaskIds :
            (/\ complete_task_code(k, a) = 200 /\ complete_task(k, a)
             /\ a \in Blockers(t))
                => get_dependencies(t)'.unmet_blockers
                       = get_dependencies(t).unmet_blockers - 1]_vars

\* a task created with depends_on = [1,2], one of the two completed since
C21_Witness ==
    \E t \in DOMAIN tasks :
        /\ get_dependencies(t).depends_on = {1, 2}
        /\ ~HasHistory(t, "dependency_added")
        /\ HasHistory(1, "completed")
        /\ get_dependencies(t).unmet_blockers = 1

\* ============================================================= Revisions
\* The columns sha256 and size of git_files are functions of content: the rows leave
\* them out and Sha256 and Size give them where an answer carries them.

\* hashlib.sha256(content.encode()).hexdigest() if content else ""
Sha256(content) == IF content = "" THEN "" ELSE "sha256:" \o content

\* len(content.encode())
Size(content) == Len(content)

\* SELECT * FROM git_repos WHERE name = ?   (name is UNIQUE; NO_ID: no row)
SelectRepo(repo_name) ==
    IF \E r \in DOMAIN git_repos : git_repos[r].name = repo_name
    THEN CHOOSE r \in DOMAIN git_repos : git_repos[r].name = repo_name
    ELSE NO_ID

\* ---- POST /git/repos
create_repo_code(k, name) ==
    IF get_agent_id(k) = NULL THEN 401
    ELSE IF SelectRepo(name) # NO_ID THEN 409
    ELSE 200

\* INSERT INTO git_branches (repo_id, name, head_commit) VALUES (rid, branch, None)
InsertBranch(branches, rid, branch) == branches @@ (<<rid, branch>> :> NO_ID)

create_repo(k, name) ==
    /\ UNCHANGED <<clock, identityVars, taskVars, msgVars, fileVars, watcherVars, git_commits, git_files, reqs>>
    /\ IF create_repo_code(k, name) # 200
       THEN UNCHANGED <<git_repos, git_branches>>
       ELSE /\ Len(git_repos) < MaxRepos
            /\ git_repos' = Append(git_repos, [name |-> name])
            /\ git_branches' = InsertBranch(git_branches, Len(git_repos) + 1, "main")

\* ---- POST /git/repos/{repo_name}/commit
\* body_files: the body's list of [path, content, action]
git_commit_code(k, repo_name, body_files) ==
    IF get_agent_id(k) = NULL THEN 401
    ELSE IF SelectRepo(repo_name) = NO_ID THEN 404
    ELSE IF body_files = << >> THEN 400
    ELSE 200

\* SELECT * FROM git_branches WHERE repo_id = ? AND name = ?
BranchFound(rid, branch) == <<rid, branch>> \in DOMAIN git_branches

\* mutant: the parent is read from the repository's main branch
ParentIdMain(rid, branch) ==
    IF <<rid, "main">> \in DOMAIN git_branches THEN git_branches[<<rid, "main">>] ELSE NO_ID

\* parent_id: None for a branch row just inserted, else branch_row["head_commit"]
ParentId(rid, branch) ==
    IF BranchFound(rid, branch) THEN git_branches[<<rid, branch>>] ELSE NO_ID

\* INSERT INTO git_commits (id, repo_id, branch, author, message, created_at, parent_id)
InsertCommit(commits, rid, branch, now, parent_id) ==
    Append(commits, [repo_id |-> rid, branch |-> branch, created_at |-> now,
                     parent_id |-> parent_id])

\* for f in body.files: INSERT INTO git_files (id, commit_id, path, content, sha256, size, action)
InsertFiles(rows, cid, body_files) ==
    rows \o [i \in 1..Len(body_files) |->
                [commit_id |-> cid, path |-> body_files[i].path, content |-> body_files[i].content,
                 action |-> body_files[i].action]]

\* mutant: the UPDATE names the main branch
SetHeadMain(branches, rid, branch, cid) ==
    [b \in DOMAIN branches |-> IF b = <<rid, "main">> THEN cid ELSE branches[b]]

\* UPDATE git_branches SET head_commit = ? WHERE repo_id = ? AND name = ?
SetHead(branches, rid, branch, cid) ==
    [b \in DOMAIN branches |-> IF b = <<rid, branch>> THEN cid ELSE branches[b]]

\* the write transaction of git_commit: found and parent_id are what its SELECT saw,
\* now is the time.time() its INSERT INTO git_commits carries
git_commit_txn(rid, branch, body_files, found, parent_id, now) ==
    LET cid == Len(git_commits) + 1
        withBranch == IF found THEN git_branches ELSE InsertBranch(git_branches, rid, branch)
    IN  /\ git_commits' = InsertCommit(git_commits, rid, branch, now, parent_id)
        /\ git_files' = InsertFiles(git_files, cid, body_files)
        /\ git_branches' = SetHead(withBranch, rid, branch, cid)

\* Requests served one after another: every call of time.time() returns a later value
\* than the one before (the calls are a request apart).
git_commit(k, repo_name, branch, body_files) ==
    /\ UNCHANGED <<identityVars, taskVars, msgVars, fileVars, watcherVars, git_repos, reqs>>
    /\ IF git_commit_code(k, repo_name, body_files) # 200
       THEN UNCHANGED <<clock, git_branches, git_commits, git_files>>
       ELSE LET rid == SelectRepo(repo_name) IN
            /\ Len(git_commits) < MaxCommits
            /\ git_commit_txn(rid, branch, body_files, BranchFound(rid, branch),
                              ParentId(rid, branch), clock)
            /\ clock' = clock + 1

\* ---- GET /git/repos/{repo_name}/tree and /files/{file_path}: the key is optional
git_read_code(repo_name) == IF SelectRepo(repo_name) = NO_ID THEN 404 ELSE 200

\* mutant: WHERE repo_id = ?, the commits of every branch of the repository
BranchCommitsOfRepo(rid, branch) ==
    {c \in DOMAIN git_commits : git_commits[c].repo_id = rid}

\* SELECT id FROM git_commits WHERE repo_id = ? AND branch = ?
BranchCommits(rid, branch) ==
    {c \in DOMAIN git_commits :
        git_commits[c].repo_id = rid /\ git_commits[c].branch = branch}

RECURSIVE NewestFirst(_)
\* ORDER BY created_at DESC: any order of the commits that is descending in created_at
\* (commits of equal created_at come in an order SQLite does not promise)
NewestFirst(cs) ==
    IF cs = {} THEN {<< >>}
    ELSE UNION {{<<c>> \o q : q \in NewestFirst(cs \ {c})} :
                    c \in {x \in cs : \A y \in cs :
                              git_commits[x].created_at >= git_commits[y].created_at}}

\* the answers GET .../log?branch= may give (a limit above the number of commits)
git_log(repo_name, branch) == NewestFirst(BranchCommits(SelectRepo(repo_name), branch))

\* SELECT * FROM git_files WHERE commit_id = ?   (the indices of the rows, in table order)
FilesOf(c) == {i \in DOMAIN git_files : git_files[i].commit_id = c}

\* mutant: file_map[path] is overwritten by every row met, the last one stays
LastSeen(q, path) ==
    LET hits == {j \in DOMAIN q : \E i \in FilesOf(q[j]) : git_files[i].path = path}
        j == CHOOSE x \in hits : \A y \in hits : x >= y
        rows == {i \in FilesOf(q[j]) : git_files[i].path = path}
    IN  CHOOSE i \in rows : \A y \in rows : i >= y

\* the row file_map keeps for a path: the first one met walking the commits in the
\* order q and, within a commit, its rows in table order
FirstSeen(q, path) ==
    LET hits == {j \in DOMAIN q : \E i \in FilesOf(q[j]) : git_files[i].path = path}
        j == CHOOSE x \in hits : \A y \in hits : x <= y
        rows == {i \in FilesOf(q[j]) : git_files[i].path = path}
    IN  CHOOSE i \in rows : \A y \in rows : i <= y

PathsOf(cs) == {git_files[i].path : i \in {x \in DOMAIN git_files : git_files[x].commit_id \in cs}}

\* mutant: the deleted files stay in the tree
TreeKeepAll(action) == TRUE

\* tree = [v for v in file_map.values() if v["action"] != "delete"]
TreeKeep(action) == action # "delete"

\* the entries of one answer, one per path
TreeIn(q) ==
    {[path |-> p, action |-> git_files[FirstSeen(q, p)].action,
      sha256 |-> Sha256(git_files[FirstSeen(q, p)].content),
      size |-> Size(git_files[FirstSeen(q, p)].content),
      commit_id |-> git_files[FirstSeen(q, p)].commit_id] :
        p \in {x \in PathsOf({q[j] : j \in DOMAIN q}) :
                    TreeKeep(git_files[FirstSeen(q, x)].action)}}

\* the order of Python's str comparison on the paths drawn
PathOrder == <<"a.txt", "b.txt">>
PathRank(p) == CHOOSE i \in DOMAIN PathOrder : PathOrder[i] = p

\* sorted(tree, key=lambda x: x["path"])
SortedByPath(tree) ==
    CHOOSE l \in [1..Cardinality(tree) -> tree] :
        /\ {l[i] : i \in DOMAIN l} = tree
        /\ \A i, j \in DOMAIN l : i < j => PathRank(l[i].path) <= PathRank(l[j].path)

\* the "files" list of the answer for the commits walked in the order q
TreeListing(q) == SortedByPath(TreeIn(q))

\* the answers GET .../tree?branch= may give
git_tree(repo_name, branch) ==
    {TreeIn(q) : q \in NewestFirst(BranchCommits(SelectRepo(repo_name), branch))}

\* gf JOIN gc ON gf.commit_id = gc.id WHERE gc.repo_id = ? AND gc.branch = ? AND gf.path = ?
PathRows(rid, branch, path) ==
    {i \in DOMAIN git_files :
        git_files[i].commit_id \in BranchCommits(rid, branch) /\ git_files[i].path = path}

\* mutant: ORDER BY gc.created_at ASC
OldestRows(rows) ==
    {i \in rows : \A j \in rows :
        git_commits[git_files[i].commit_id].created_at
            <= git_commits[git_files[j].commit_id].created_at}

\* ORDER BY gc.created_at DESC LIMIT 1: a row of the greatest created_at
LatestRows(rows) ==
    {i \in rows : \A j \in rows :
        git_commits[git_files[i].commit_id].created_at
            >= git_commits[git_files[j].commit_id].created_at}

\* the answers GET .../files/{file_path}?branch= may give
git_read_file(repo_name, branch, path) ==
    LET rows == PathRows(SelectRepo(repo_name), branch, path) IN
    IF git_read_code(repo_name) # 200 \/ rows = {}
    THEN {[code |-> 404, content |-> NULL]}
    ELSE {IF git_files[i].action = "delete"
          THEN [code |-> 404, content |-> NULL]
          ELSE [code |-> 200, content |-> git_files[i].content] : i \in LatestRows(rows)}

\* The requests the revision specifications draw
GitAgents == {"alice"}
GitKeys == {1}
RepoNames == {"r1", "r2"}
Branches == {"main", "dev"}
Paths == {"a.txt", "b.txt"}
GitFiles ==
    {<< >>,
     <<[path |-> "a.txt", content |-> "hello", action |-> "add"]>>,
     <<[path |-> "a.txt", content |-> "hello world", action |-> "modify"]>>,
     <<[path |-> "a.txt", content |-> "", action |-> "delete"]>>,
     <<[path |-> "b.txt", content |-> "hello", action |-> "add"],
       [path |-> "a.txt", content |-> "hello", action |-> "add"]>>}
OneFile == <<[path |-> "a.txt", content |-> "hello", action |-> "add"]>>

\* commits to the branches of r1, read back by tree and files
NextGit ==
    \/ \E n \in GitAgents : register_agent(n, ADMIN_SECRET)
    \/ \E k \in GitKeys, r \in RepoNames : create_repo(k, r)
    \/ \E k \in GitKeys, b \in Branches, f \in GitFiles : git_commit(k, "r1", b, f)

SpecGit == Init /\ [][NextGit]_vars

OtherFile == <<[path |-> "b.txt", content |-> "other", action |-> "add"]>>

\* commits to the branches of two repositories
NextGitRepos ==
    \/ \E n \in GitAgents : register_agent(n, ADMIN_SECRET)
    \/ \E k \in GitKeys, r \in RepoNames : create_repo(k, r)
    \/ \E k \in GitKeys, r \in RepoNames, b \in Branches, f \in {OneFile, OtherFile} :
            git_commit(k, r, b, f)

SpecGitRepos == Init /\ [][NextGitRepos]_vars

\* ---- git_commit in two steps.  Its SELECTs run in autocommit; the write transaction
\* opens at the first INSERT.  When the branch row was found that INSERT is the one
\* into git_commits, whose argument time.time() is evaluated before the statement
\* waits for the write lock; when it was not, the INSERT into git_branches comes
\* first and time.time() is read inside the transaction.
git_commit_begin(s, k, repo_name, branch, body_files) ==
    /\ SlotFree(s)
    /\ UNCHANGED <<gitVars, watcherVars, identityVars, taskVars, msgVars, fileVars>>
    /\ IF git_commit_code(k, repo_name, body_files) # 200
       THEN /\ reqs' = [reqs EXCEPT ![s] =
                    [IdleReq EXCEPT !.op = "git_commit", !.pc = "done",
                                    !.code = git_commit_code(k, repo_name, body_files)]]
            /\ UNCHANGED clock
       ELSE LET rid == SelectRepo(repo_name)
                found == BranchFound(rid, branch)
            IN  /\ reqs' = [reqs EXCEPT ![s] =
                        [IdleReq EXCEPT !.op = "git_commit", !.pc = "txn",
                                        !.agent = get_agent_id(k), !.id = rid, !.to = branch,
                                        !.found = found, !.snap = ParentId(rid, branch),
                                        !.now = IF found THEN clock ELSE NULL_TIME,
                                        !.files = body_files]]
                /\ clock' = IF found THEN clock + 1 ELSE clock

\* 500: the INSERT INTO git_branches meets the row another request wrote meanwhile
\* (PRIMARY KEY (repo_id, name)); sqlite3.IntegrityError is not caught, nothing is committed
git_commit_write(s) ==
    /\ reqs[s].op = "git_commit" /\ reqs[s].pc = "txn"
    /\ UNCHANGED <<identityVars, taskVars, msgVars, fileVars, watcherVars, git_repos>>
    /\ IF ~reqs[s].found /\ BranchFound(reqs[s].id, reqs[s].to)
       THEN /\ UNCHANGED <<clock, git_branches, git_commits, git_files>>
            /\ reqs' = [reqs EXCEPT ![s] =
                    [IdleReq EXCEPT !.op = "git_commit", !.pc = "done", !.code = 500]]
       ELSE /\ Len(git_commits) < MaxCommits
            /\ git_commit_txn(reqs[s].id, reqs[s].to, reqs[s].files, reqs[s].found,
                              reqs[s].snap, IF reqs[s].found THEN reqs[s].now ELSE clock)
            /\ clock' = IF reqs[s].found THEN clock ELSE clock + 1
            /\ reqs' = [reqs EXCEPT ![s] =
                    [IdleReq EXCEPT !.op = "git_commit", !.pc = "done", !.code = 200]]

\* commits to r1 that overlap, next to commits to r2 served one after another
NextGitConc ==
    \/ \E n \in GitAgents : register_agent(n, ADMIN_SECRET)
    \/ \E k \in GitKeys, r \in RepoNames : create_repo(k, r)
    \/ \E k \in GitKeys : git_commit(k, "r2", "main", OneFile)
    \/ \E s \in Slots, b \in Branches : git_commit_begin(s, 1, "r1", b, OneFile)
    \/ \E s \in Slots : git_commit_write(s)

SpecGitConc == Init /\ [][NextGitConc]_vars

\* ---- requests that are refused, next to the ones that go through
BadSecret == "wrong"
Secrets == {ADMIN_SECRET, BadSecret}
ErrPatches ==
    {[status |-> NULL, priority |-> "high"], [status |-> "bogus", priority |-> NULL],
     [status |-> NULL, priority |-> NULL]}
\* uploads whose disk write goes through
SizedUploads == {u \in FileUploads : u.errno = 0}

NextErrors ==
    \/ \E n \in FileAgents, secret \in Secrets : register_agent(n, secret)
    \/ create_conversation(1, "team", {})
    \/ \E k \in FileKeys, c \in {NO_ID, 1}, u \in SizedUploads :
            upload_file(k, c, u.size, u.errno)
    \/ \E k \in FileKeys, b \in PlainBodies :
            create_task(k, b.priority, b.due_by, b.parent_id, b.depends_on)
    \/ \E k \in FileKeys, t \in TaskIds, b \in ErrPatches : update_task(k, t, b)
    \/ \E k \in FileKeys : create_repo(k, "r1")
    \/ \E k \in FileKeys, r \in RepoNames, b \in {<< >>, OneFile} : git_commit(k, r, "main", b)

SpecErrors == Init /\ [][NextErrors]_vars

\* ----------------------------------------------------- claims on revisions

RECURSIVE Ancestors(_, _)
\* the commits met following parent links from c, at most n of them
Ancestors(c, n) ==
    IF c = NO_ID \/ c \notin DOMAIN git_commits \/ n = 0 THEN {}
    ELSE {c} \cup Ancestors(git_commits[c].parent_id, n - 1)

NewCommits == DOMAIN git_commits' \ DOMAIN git_commits

\* C22: also when commits to one branch overlap, the branch is one linear chain: a
\* commit's parent is the branch head right before the commit was written, no two
\* commits of a branch share a parent, and every commit of a branch is reachable
\* from the branch head through parent links.
C22_LinearChain ==
    /\ [][\A c \in NewCommits :
            git_commits'[c].parent_id =
                ParentId(git_commits'[c].repo_id, git_commits'[c].branch)]_vars
    /\ [](\A c, d \in DOMAIN git_commits :
            (/\ c # d /\ git_commits[c].repo_id = git_commits[d].repo_id
             /\ git_commits[c].branch = git_commits[d].branch)
                => git_commits[c].parent_id # git_commits[d].parent_id)
    /\ [](\A b \in DOMAIN git_branches :
            BranchCommits(b[1], b[2])
                \subseteq Ancestors(git_branches[b], Len(git_commits)))

\* C23: a branch's head_commit is null or the id of a commit of that repository and branch.
C23_HeadOnBranch ==
    \A b \in DOMAIN git_branches :
        \/ git_branches[b] = NO_ID
        \/ /\ git_branches[b] \in DOMAIN git_commits
           /\ git_commits[git_branches[b]].repo_id = b[1]
           /\ git_commits[git_branches[b]].branch = b[2]

\* two branches of one repository and a branch of another, each with a head
C23_Witness ==
    \E a, b, c \in DOMAIN git_branches :
        /\ a[1] = b[1] /\ a[2] # b[2] /\ c[1] # a[1]
        /\ git_branches[a] # NO_ID /\ git_branches[b] # NO_ID /\ git_branches[c] # NO_ID

\* C24: a commit's non-null parent exists and is a commit of the same repository and
\* branch; the commit that creates its branch on demand has a null parent.
C24_ParentOnBranch ==
    /\ [](\A c \in DOMAIN git_commits :
            LET p == git_commits[c].parent_id IN
            p # NO_ID => /\ p \in DOMAIN git_commits
                         /\ git_commits[p].repo_id = git_commits[c].repo_id
                         /\ git_commits[p].branch = git_commits[c].branch)
    /\ [][\A c \in NewCommits :
            ~BranchFound(git_commits'[c].repo_id, git_commits'[c].branch)
                => git_commits'[c].parent_id = NO_ID]_vars

\* a second commit on a branch created on demand, next to a commit of another repository
C24_Witness ==
    \E c, d, e \in DOMAIN git_commits :
        /\ git_commits[c].branch = "dev" /\ git_commits[c].parent_id = NO_ID
        /\ git_commits[d].branch = "dev" /\ git_commits[d].parent_id = c
        /\ git_commits[e].repo_id # git_commits[c].repo_id

\* a step writes a commit on branch b of repository r that carries a row for path p
Touches(r, b, p) ==
    \E c \in NewCommits :
        /\ git_commits'[c].repo_id = SelectRepo(r) /\ git_commits'[c].branch = b
        /\ \E i \in DOMAIN git_files' :
               git_files'[i].commit_id = c /\ git_files'[i].path = p

\* C25: after a successful commit that adds or modifies path P with content C on branch
\* X, reading P on X answers C, and goes on doing so until a later commit on X changes P.
C25_ReadAfterCommit ==
    /\ [][\A k \in GitKeys, b \in Branches, f \in GitFiles :
            (git_commit_code(k, "r1", f) = 200 /\ git_commit(k, "r1", b, f)) =>
                \A i \in DOMAIN f : f[i].action \in {"add", "modify"} =>
                    git_read_file("r1", b, f[i].path)'
                        = {[code |-> 200, content |-> f[i].content]}]_vars
    /\ [][\A r \in RepoNames, b \in Branches, p \in Paths :
            ~Touches(r, b, p) => git_read_file(r, b, p)' = git_read_file(r, b, p)]_vars

\* a.txt read back as modified by the second commit, after a third commit on the
\* other branch
C25_Witness ==
    /\ git_read_file("r1", "main", "a.txt") = {[code |-> 200, content |-> "hello world"]}
    /\ Cardinality(PathRows(SelectRepo("r1"), "main", "a.txt")) = 2
    /\ BranchCommits(SelectRepo("r1"), "dev") # {}

\* the tree of branch b of repository r never lists p, and reading p answers 404
Absent(r, b, p) ==
    /\ \A t \in git_tree(r, b) : \A e \in t : e.path # p
    /\ git_read_file(r, b, p) = {[code |-> 404, content |-> NULL]}

\* C26: after a commit that adds X and a later commit on the same branch that deletes
\* X, the branch's tree does not contain X and reading X answers 404, until X is
\* added again.
C26_DeleteHides ==
    /\ [][\A k \in GitKeys, b \in Branches, f \in GitFiles :
            (git_commit_code(k, "r1", f) = 200 /\ git_commit(k, "r1", b, f)) =>
                \A i \in DOMAIN f :
                    (/\ f[i].action = "delete"
                     /\ \E j \in PathRows(SelectRepo("r1"), b, f[i].path) :
                            git_files[j].action = "add")
                        => Absent("r1", b, f[i].path)']_vars
    /\ [][\A r \in RepoNames, b \in Branches, p \in Paths :
            (Absent(r, b, p) /\ ~Touches(r, b, p)) => Absent(r, b, p)']_vars

\* a.txt added with b.txt, then deleted: b.txt is what the tree still lists
C26_Witness ==
    /\ \E i, j \in PathRows(SelectRepo("r1"), "main", "a.txt") :
            /\ i < j /\ git_files[i].action = "add" /\ git_files[j].action = "delete"
    /\ Absent("r1", "main", "a.txt")
    /\ \E t \in git_tree("r1", "main") : \E e \in t : e.path = "b.txt"

\* head_commit of a branch, NO_ID also when the branch has no row
HeadOf(r, b) ==
    IF BranchFound(SelectRepo(r), b) THEN git_branches[<<SelectRepo(r), b>>] ELSE NO_ID

\* C36: a commit to branch X of repository R leaves the head, the log, the tree and
\* every file content of each other branch of R and of each other repository as they
\* were; a branch created on demand has an empty tree before its first commit and
\* only that commit's files after it.
C36_OtherBranchesKept ==
    /\ [][\A k \in GitKeys, R \in RepoNames, X \in Branches, f \in {OneFile, OtherFile} :
            (git_commit_code(k, R, f) = 200 /\ git_commit(k, R, X, f)) =>
                \A r \in RepoNames, b \in Branches : (r # R \/ b # X) =>
                    /\ HeadOf(r, b)' = HeadOf(r, b)
                    /\ git_log(r, b)' = git_log(r, b)
                    /\ git_tree(r, b)' = git_tree(r, b)
                    /\ \A p \in Paths : git_read_file(r, b, p)' = git_read_file(r, b, p)]_vars
    /\ [][\A k \in GitKeys, R \in RepoNames, X \in Branches, f \in {OneFile, OtherFile} :
            (/\ git_commit_code(k, R, f) = 200 /\ ~BranchFound(SelectRepo(R), X)
             /\ git_commit(k, R, X, f)) =>
                /\ git_tree(R, X) = {{}}
                /\ \A t \in git_tree(R, X)' :
                        {e.path : e \in t} = {f[i].path : i \in DOMAIN f}]_vars

\* main of r1 holds a.txt, dev of r1, created by its commit, holds b.txt alone, and
\* the other repository has a commit of its own
C36_Witness ==
    /\ \A t \in git_tree("r1", "main") : {e.path : e \in t} = {"a.txt"}
    /\ \A t \in git_tree("r1", "dev") : {e.path : e \in t} = {"b.txt"}
    /\ HeadOf("r1", "main") # NO_ID /\ HeadOf("r1", "dev") # NO_ID
    /\ HeadOf("r2", "main") # NO_ID

RECURSIVE Ascending(_)
\* the numbers of a set, smallest first
Ascending(S) ==
    IF S = {} THEN << >>
    ELSE LET m == CHOOSE x \in S : \A y \in S : x <= y IN <<m>> \o Ascending(S \ {m})

RECURSIVE WalkOrder(_)
\* the file rows in the order a walk of the commits q meets them
WalkOrder(q) ==
    IF q = << >> THEN << >> ELSE Ascending(FilesOf(Head(q))) \o WalkOrder(Tail(q))

RECURSIVE KeepFirst(_, _)
\* the fold: a row is kept when no row of its path was kept before it
KeepFirst(rows, kept) ==
    IF rows = << >> THEN kept
    ELSE KeepFirst(Tail(rows),
                   IF \E i \in kept : git_files[i].path = git_files[Head(rows)].path
                   THEN kept ELSE kept \cup {Head(rows)})

\* C34: the tree of a branch is the fold over the branch's commits, newest first,
\* that keeps for each path the first file entry met, without the paths whose kept
\* entry is a delete, in ascending path order; each entry carries the sha256, the
\* size and the commit id of the kept entry.
C34_TreeIsFold ==
    \A r \in RepoNames, b \in Branches :
        git_read_code(r) = 200 =>
            \A q \in NewestFirst(BranchCommits(SelectRepo(r), b)) :
                LET kept == {i \in KeepFirst(WalkOrder(q), {}) : git_files[i].action # "delete"}
                    l == TreeListing(q)
                IN  /\ \A i, j \in DOMAIN l : i < j => PathRank(l[i].path) < PathRank(l[j].path)
                    /\ Len(l) = Cardinality(kept)
                    /\ \A i \in kept : \E j \in DOMAIN l :
                            /\ l[j].path = git_files[i].path
                            /\ l[j].sha256 = Sha256(git_files[i].content)
                            /\ l[j].size = Size(git_files[i].content)
                            /\ l[j].commit_id = git_files[i].commit_id

\* b.txt and a.txt written in that order by one commit and a.txt modified by a later
\* one: the listing has a.txt first, each entry with the commit that wrote it last
C34_Witness ==
    \E q \in NewestFirst(BranchCommits(SelectRepo("r1"), "main")) :
        /\ Len(TreeListing(q)) = 2
        /\ TreeListing(q)[1].path = "a.txt" /\ TreeListing(q)[2].path = "b.txt"
        /\ TreeListing(q)[1].sha256 = "sha256:hello world"
        /\ TreeListing(q)[1].size = 11
        /\ TreeListing(q)[1].commit_id # TreeListing(q)[2].commit_id

\* ----------------------------------------------------------- claims on files

\* C27: in every state, those in the middle of an upload or a delete included, a
\* File row has its blob on disk unless a delete of that file has been acknowledged.
C27_RowHasBlob ==
    \A f \in DOMAIN files :
        \/ f \in disk
        \/ \E s \in Slots : /\ reqs[s].op = "delete_file" /\ reqs[s].id = f
                            /\ reqs[s].pc = "done" /\ reqs[s].code = 200

\* C28: a delete by an agent other than the uploader answers 403 and leaves the row
\* and the blob; a delete by the uploader removes the row, and from then on the
\* metadata and the download of that id answer 404.
C28_OnlyUploaderDeletes ==
    /\ [](\A k \in FileKeys, f \in DOMAIN files : get_agent_id(k) # NULL =>
            delete_file_code(k, f) =
                IF files[f].uploaded_by = get_agent_id(k) THEN 200 ELSE 403)
    /\ [][\A k \in FileKeys, f \in DOMAIN files, removed \in BOOLEAN :
            (get_agent_id(k) # NULL /\ delete_file(k, f, removed)) =>
                IF delete_file_code(k, f) = 403
                THEN /\ f \in DOMAIN files' /\ files'[f] = files[f]
                     /\ (f \in disk') = (f \in disk)
                ELSE /\ f \notin DOMAIN files'
                     /\ get_file_info_code(f)' = 404
                     /\ download_file_code(f)' = 404]_vars
    /\ [][\A f \in 1..file_seq : f \notin DOMAIN files => f \notin DOMAIN files']_vars

\* a file its uploader may delete and the other registered agent may not
C28_Witness ==
    \E f \in DOMAIN files, k, j \in FileKeys :
        /\ f \in disk /\ download_file_code(f) = 200
        /\ delete_file_code(k, f) = 403 /\ delete_file_code(j, f) = 200

\* C29: POST /send-file is all or nothing on the store: when it answers 200 the File
\* row, the dm message and the row's message_id naming that message all exist, file and
\* message in the same dm conversation; otherwise none exists and no conversation was
\* created.
C29_SendFileAtomic ==
    [][\A k \in FileKeys, to \in FileAgents, u \in FileUploads :
        send_dm_with_file(k, to, u.size, u.errno) =>
            IF send_dm_with_file_code(k, to, u.size, u.errno) = 200
            THEN \E f \in DOMAIN files' \ DOMAIN files, m \in DOMAIN messages' \ DOMAIN messages :
                    /\ files'[f].message_id = m
                    /\ files'[f].conversation_id = messages'[m].conversation_id
                    /\ messages'[m].conversation_id \in DOMAIN conversations'
                    /\ conversations'[messages'[m].conversation_id].type = "dm"
            ELSE UNCHANGED <<msgVars, files>>]_vars

\* a file sent with its message in a dm the request created; the disk has its blob
C29_Witness ==
    \E f \in DOMAIN files :
        /\ files[f].message_id \in DOMAIN messages
        /\ messages[files[f].message_id].conversation_id = files[f].conversation_id
        /\ Len(messages) = 1 /\ f \in disk

\* C30: leaving a conversation twice in a row succeeds both times, and the second
\* leave changes nothing.
C30_LeaveTwice ==
    /\ [](\A k \in MsgKeys, c \in ConvIds : get_agent_id(k) # NULL =>
            LET once == LeaveMembers(conversation_members, c, get_agent_id(k)) IN
            /\ leave_conv_code(k, c) = 200
            /\ LeaveMembers(once, c, get_agent_id(k)) = once)
    /\ [][\A k \in MsgKeys, c \in ConvIds :
            (get_agent_id(k) # NULL /\ leave_conv(k, c)) =>
                /\ ~IsMember(c, get_agent_id(k))'
                /\ leave_conv_code(k, c)' = 200
                /\ UNCHANGED <<conversations, messages>>]_vars

\* bob has left the group he was created into, and may ask to leave again
C30_Witness ==
    \E c \in DOMAIN conversations, k \in MsgKeys :
        /\ conversations[c].type = "group"
        /\ get_agent_id(k) = "bob" /\ ~IsMember(c, "bob") /\ IsMember(c, "alice")
        /\ leave_conv_code(k, c) = 200

\* -------------------------------------------- claims on overlapping task requests

\* the claim requests on task t that were answered 200
ClaimsWon(t) ==
    {s \in Slots : /\ reqs[s].op = "claim_task" /\ reqs[s].pc = "done"
                   /\ reqs[s].code = 200 /\ reqs[s].id = t}

\* C31: of the claim requests on one open task at most one is answered 200, and
\* claimed_by is the agent of that request, whatever the interleaving of the
\* handlers' read and write steps.
C31_OneClaimWins ==
    \A t \in DOMAIN tasks :
        /\ Cardinality(ClaimsWon(t)) <= 1
        /\ \A s \in ClaimsWon(t) : tasks[t].claimed_by = reqs[s].agent

\* the PATCH requests on task t that were answered 200
PatchesDone(t) ==
    {s \in Slots : /\ reqs[s].op = "update_task" /\ reqs[s].pc = "done"
                   /\ reqs[s].code = 200 /\ reqs[s].id = t}

UpdatedEntry(t) == [task_id |-> t, action |-> "updated"]

\* C33: a successful PATCH appends exactly one history entry, for its task; no
\* history entry is ever lost; when PATCH requests on one task overlap each of them
\* has its entry afterwards, and the write of each leaves every field it names at
\* its value and every other field as the earlier writes left it.
C33_PatchHistoryKept ==
    /\ [][\A s \in Slots : update_commit(s) =>
            /\ BagCardinality(task_history') = BagCardinality(task_history) + 1
            /\ CopiesIn(UpdatedEntry(reqs[s].id), task_history')
                    = CopiesIn(UpdatedEntry(reqs[s].id), task_history) + 1]_vars
    /\ [][\A e \in BagToSet(task_history) :
            CopiesIn(e, task_history') >= CopiesIn(e, task_history)]_vars
    /\ [](\A t \in DOMAIN tasks :
            CopiesIn(UpdatedEntry(t), task_history) = Cardinality(PatchesDone(t)))
    /\ [][\A s \in Slots : update_commit(s) =>
            LET t == reqs[s].id
                b == reqs[s].body
            IN  /\ tasks'[t].status = IF b.status # NULL THEN b.status ELSE tasks[t].status
                /\ tasks'[t].priority =
                        IF b.priority # NULL THEN b.priority ELSE tasks[t].priority
                /\ \A u \in DOMAIN tasks : u # t => tasks'[u] = tasks[u]]_vars

\* two PATCH requests on one task that both read it before either wrote, one naming
\* the status, the other the priority and another status; both are answered
C33_Witness ==
    \E t \in DOMAIN tasks : \E s, q \in PatchesDone(t) :
        /\ s # q
        /\ reqs[s].to = "open" /\ reqs[q].to = "open"
        /\ reqs[s].body.status = "done" /\ reqs[q].body.status = "cancelled"
        /\ tasks[t].priority = "low"
        /\ CopiesIn(UpdatedEntry(t), task_history) = 2

\* -------------------------------------------------- claims on refused requests

\* the answers of validation, authentication, authorization, not found, conflict, capacity
RefusedCodes == {400, 401, 403, 404, 409, 413}

\* the tables and the files directory
storeVars == <<identityVars, taskVars, msgVars, fileVars, gitVars>>

\* the step is a request of one of the handlers that is answered with a refusal
RefusedStep ==
    \/ \E n \in FileAgents, secret \in Secrets :
            register_agent_code(n, secret) \in RefusedCodes /\ register_agent(n, secret)
    \/ \E k \in FileKeys, c \in {NO_ID, 1}, u \in SizedUploads :
            /\ upload_file_code(k, c, u.size, u.errno) \in RefusedCodes
            /\ upload_file(k, c, u.size, u.errno)
    \/ \E k \in FileKeys, b \in PlainBodies :
            /\ create_task_code(k, b.priority, b.due_by, b.parent_id) \in RefusedCodes
            /\ create_task(k, b.priority, b.due_by, b.parent_id, b.depends_on)
    \/ \E k \in FileKeys, t \in TaskIds, b \in ErrPatches :
            update_task_code(k, t, b) \in RefusedCodes /\ update_task(k, t, b)
    \/ \E k \in FileKeys :
            create_repo_code(k, "r1") \in RefusedCodes /\ create_repo(k, "r1")
    \/ \E k \in FileKeys, r \in RepoNames, b \in {<< >>, OneFile} :
            git_commit_code(k, r, b) \in RefusedCodes /\ git_commit(k, r, "main", b)

\* C32: a request answered 400, 401, 403, 404, 409 or 413 leaves every table and the
\* files directory as they were.
C32_RefusedWritesNothing ==
    [][UNCHANGED storeVars \/ ~RefusedStep]_vars

\* rows in every table the three handlers write, and requests each of them refuses:
\* a PATCH naming an unknown status, an upload into a group by a non-member, a commit
\* without files
C32_Witness ==
    /\ Len(tasks) > 0 /\ Len(git_commits) > 0 /\ DOMAIN files # {}
    /\ \E k \in FileKeys :
        /\ update_task_code(k, 1, [status |-> "bogus", priority |-> NULL]) = 400
        /\ upload_file_code(k, 1, 10, 0) = 403
        /\ git_commit_code(k, "r1", << >>) = 400

\* -------------------------------------------------------- claims on invites

\* C35: an invite into a dm is answered 400 and an invite into a group by a caller who
\* is not a member of it 403; neither changes the membership, and no invite changes
\* the members of a dm.
C35_InviteRefused ==
    /\ [](\A k \in MsgKeys, c \in DOMAIN conversations : get_agent_id(k) # NULL =>
            /\ conversations[c].type = "dm" => invite_agent_code(k, c) = 400
            /\ (conversations[c].type # "dm" /\ ~IsMember(c, get_agent_id(k)))
                    => invite_agent_code(k, c) = 403)
    /\ [][\A k \in MsgKeys, c \in ConvIds, who \in Names :
            (invite_agent_code(k, c) \in {400, 403} /\ invite_agent(k, c, who))
                => UNCHANGED conversation_members]_vars
    /\ [][\A k \in MsgKeys, c \in DOMAIN conversations, who \in Names :
            (conversations[c].type = "dm" /\ invite_agent(k, c, who))
                => MembersOf(c)' = MembersOf(c)]_vars

\* a dm one registered agent is in and another is not, next to a group the second is
\* not in either
C35_Witness ==
    \E d, g \in DOMAIN conversations, j, k \in MsgKeys :
        /\ conversations[d].type = "dm" /\ conversations[g].type = "group"
        /\ get_agent_id(j) # NULL /\ get_agent_id(k) # NULL
        /\ IsMember(d, get_agent_id(j)) /\ ~IsMember(d, get_agent_id(k))
        /\ ~IsMember(g, get_agent_id(k))
        /\ invite_agent_code(j, d) = 400 /\ invite_agent_code(k, g) = 403

\* ------------------------------------------------- claims on the join queue

\* C37: a registration that is approved or rejected keeps that status for good, a
\* review of it is answered 404 and changes nothing, and reviewed_by and reviewed_at
\* are set exactly when the status is not pending.
C37_ReviewIsFinal ==
    /\ [][\A r \in DOMAIN pending_registrations :
            pending_registrations[r].status # "pending" =>
                pending_registrations'[r] = pending_registrations[r]]_vars
    /\ [](\A r \in DOMAIN pending_registrations :
            /\ pending_registrations[r].status \in {"pending", "approved", "rejected"}
            /\ pending_registrations[r].status = "pending"
                    <=> pending_registrations[r].reviewed_by = NULL
            /\ pending_registrations[r].status = "pending"
                    <=> pending_registrations[r].reviewed_at = NULL_TIME)
    /\ [](\A k \in Keys, r \in DOMAIN pending_registrations :
            (get_agent_id(k) # NULL /\ pending_registrations[r].status # "pending")
                => review_code(k, r) = 404)

\* ------------------------------------------ claims on task history and comments

\* C38: every task-history row and every task-comment row carries the id of a task
\* that exists.
C38_RowsReferToTasks ==
    /\ \A e \in BagToSet(task_history) : e.task_id \in DOMAIN tasks
    /\ \A c \in BagToSet(task_comments) : c.task_id \in DOMAIN tasks

\* ------------------------------------------------ claims on the legacy migration

MaxPolls == 32

\* CLAUDIUS_KEY: the key the watcher sends with every request
WatcherKey == 1

\* check_inbox(): GET /inbox without since, limit 50; the lists it may return
\* (no list: the request raises, HTTP 401 included)
check_inbox ==
    IF get_inbox_code(WatcherKey) # 200 THEN {} ELSE get_inbox(WatcherKey, 0, 50)

\* new_messages: the rows of the inbox whose id is not in notified_ids
NewMessages(inbox) == SelectSeq(inbox, LAMBDA m : m \notin notified_ids)

\* the buffer after the new messages are appended (one already in it is not added twice)
Detect(inbox) ==
    pending_messages \o
        SelectSeq(NewMessages(inbox), LAMBDA m : m \notin Range(pending_messages))

\* if pending_messages and (now - last_reply_time) >= REPLY_INTERVAL
ReplyDue(pending, now) ==
    pending # << >> /\ now - last_reply_time >= REPLY_INTERVAL

\* for msg in pending_messages: mark_read(msg["id"]), each in its own try/except.
\* marked: the ids whose POST /inbox/{id}/read is answered; the others raise, are logged
\* and skipped
MarkBatchRead(msgs, batch, marked) ==
    [m \in DOMAIN msgs |->
        IF m \in Range(batch) /\ m \in marked /\ mark_read_code(WatcherKey, m) = 200
        THEN [msgs[m] EXCEPT !.read = 1] ELSE msgs[m]]

\* one turn of the loop of main(), time.sleep(DETECT_INTERVAL) included.
\* inbox_ok: check_inbox() returns; success: what spawn_agent_reply() returns
watch_poll(inbox_ok, success, marked) ==
    /\ watcher_time < REPLY_INTERVAL + MaxPolls * DETECT_INTERVAL
    /\ watcher_time' = watcher_time + DETECT_INTERVAL
    /\ UNCHANGED <<clock, gitVars, identityVars, taskVars, fileVars, conversations,
                   conversation_members, reqs>>
    /\ IF ~inbox_ok \/ check_inbox = {}
       THEN UNCHANGED <<messages, pending_messages, notified_ids, last_reply_time>>
       ELSE \E inbox \in check_inbox :
              LET pending == Detect(inbox)
              IN  /\ notified_ids' = notified_ids \cup Range(NewMessages(inbox))
                  /\ IF ~ReplyDue(pending, watcher_time)
                     THEN /\ pending_messages' = pending
                          /\ UNCHANGED <<messages, last_reply_time>>
                     ELSE IF success
                     THEN /\ messages' = MarkBatchRead(messages, pending, marked)
                          /\ pending_messages' = << >>
                          /\ last_reply_time' = watcher_time
                     ELSE /\ pending_messages' = pending
                          /\ last_reply_time' = watcher_time
                          /\ UNCHANGED messages

\* The watcher beside the agents that write to its inbox
NextWatcher ==
    \/ \E n \in MsgAgents : register_agent(n, ADMIN_SECRET)
    \/ send_dm(2, "alice")
    \/ \E inbox_ok, success \in BOOLEAN, marked \in SUBSET MsgIds :
          watch_poll(inbox_ok, success, marked)

SpecWatcher == Init /\ [][NextWatcher]_vars

\* the watcher when every POST /inbox/{id}/read is answered
NextWatcherBridgeUp ==
    \/ \E n \in MsgAgents : register_agent(n, ADMIN_SECRET)
    \/ send_dm(2, "alice")
    \/ \E inbox_ok, success \in BOOLEAN : watch_poll(inbox_ok, success, MsgIds)

SpecWatcherBridgeUp == Init /\ [][NextWatcherBridgeUp]_vars

\* ------------------------------------------------------------- claims on the inbox watcher
\* a step in which spawn_agent_reply() ran: only then is last_reply_time written,
\* and always to a later time
SpawnAttempted == last_reply_time' # last_reply_time
\* the spawn failed: the buffer is kept; it succeeded: the buffer is emptied
SpawnFailed == SpawnAttempted /\ pending_messages' # << >>
SpawnSucceeded == SpawnAttempted /\ pending_messages' = << >>
\* the batch handed to the agent: the buffer and the messages detected in this turn
Batch == Range(pending_messages) \cup (notified_ids' \ notified_ids)

\* a detected message leaves the buffer only in a turn whose spawn succeeds
BufferKeptUntilReplied ==
    \A m \in Range(pending_messages) :
        m \notin Range(pending_messages') => SpawnSucceeded

\* a failed spawn keeps the whole batch, and a spawn is attempted only
\* REPLY_INTERVAL or more after the one before
RetryPaced ==
    /\ SpawnFailed => Range(pending_messages') = Batch
    /\ SpawnAttempted => watcher_time - last_reply_time >= REPLY_INTERVAL

\* after a successful spawn every message of the batch is read on the bridge
BatchMarkedRead ==
    SpawnSucceeded => \A m \in Batch : messages'[m].read = 1

\* C40: a detected message stays in the pending buffer until a reply batch containing
\* it succeeds; a failed spawn leaves the buffer unchanged and the next spawn comes no
\* earlier than REPLY_INTERVAL later; after a successful spawn every message of the
\* batch is marked read on the bridge and the buffer is emptied
C40_RepliedBatchIsRead ==
    [][BufferKeptUntilReplied /\ RetryPaced /\ BatchMarkedRead]_vars

\* the buffer and the pacing alone
C40_BufferAndPacing == [][BufferKeptUntilReplied /\ RetryPaced]_vars

\* a second spawn, REPLY_INTERVAL after a failed one, has emptied the buffer
C40_RetryReached ==
    /\ last_reply_time = REPLY_INTERVAL + REPLY_INTERVAL
    /\ pending_messages = << >>
    /\ \E m \in DOMAIN messages : messages[m].read = 1

====
